---------------------------- MODULE Spec2Model ----------------------------
(***************************************************************************)
(* A model of the image-to-glyph pipeline of ascii_bg: the glyph ramp      *)
(* (core/character_sets.py), the resolution parser and the enhancement     *)
(* configuration (core/image_processor.py), the converter                  *)
(* (core/converter.py), the colour synthesizer (core/color_handler.py),    *)
(* the border pass (core/renderer.py) and the command (cli.py).            *)
(*                                                                         *)
(* Python's float is IEEE-754 binary64.  The code truncates float results  *)
(* to integers (int(...)), so a result one rounding step below an integer  *)
(* changes the output.  Floats are therefore modelled exactly: a float is  *)
(* a sign, a 53-bit significand held as an arbitrary-precision natural     *)
(* and a binary exponent, and every operation rounds to nearest, ties to   *)
(* even.  All values of the program are far from overflow and underflow,   *)
(* so infinities, NaN and subnormals are not modelled.                     *)
(***************************************************************************)
EXTENDS Integers, Sequences, FiniteSets, TLC

(***************************************************************************)
(* Arbitrary-precision naturals: little-endian sequences of 15-bit limbs   *)
(* without leading zero limbs; <<>> is zero.                               *)
(***************************************************************************)
LimbBits == 5 * 3
LimbBase == 32 * 1024

Pow2(k) == 2 ^ k

RECURSIVE BTrim(_)
BTrim(a) ==
    IF Len(a) = 0 THEN a
    ELSE IF a[Len(a)] = 0 THEN BTrim(SubSeq(a, 1, Len(a) - 1))
    ELSE a

RECURSIVE BFromInt(_)
BFromInt(n) == IF n = 0 THEN <<>> ELSE <<n % LimbBase>> \o BFromInt(n \div LimbBase)

RECURSIVE BToInt(_)
BToInt(a) == IF Len(a) = 0 THEN 0 ELSE a[1] + LimbBase * BToInt(Tail(a))

BLimb(a, i) == IF i <= Len(a) THEN a[i] ELSE 0

RECURSIVE BAddC(_, _, _, _)
BAddC(a, b, i, c) ==
    IF i > Len(a) /\ i > Len(b) THEN (IF c = 0 THEN <<>> ELSE <<c>>)
    ELSE LET s == BLimb(a, i) + BLimb(b, i) + c
         IN  <<s % LimbBase>> \o BAddC(a, b, i + 1, s \div LimbBase)

BAdd(a, b) == BTrim(BAddC(a, b, 1, 0))

RECURSIVE BSubC(_, _, _, _)
BSubC(a, b, i, borrow) ==
    IF i > Len(a) THEN <<>>
    ELSE LET d == a[i] - BLimb(b, i) - borrow
         IN  IF d < 0 THEN <<d + LimbBase>> \o BSubC(a, b, i + 1, 1)
             ELSE <<d>> \o BSubC(a, b, i + 1, 0)

\* a - b for a >= b
BSub(a, b) == BTrim(BSubC(a, b, 1, 0))

RECURSIVE BCmpAt(_, _, _)
BCmpAt(a, b, i) ==
    IF i = 0 THEN 0
    ELSE IF a[i] < b[i] THEN -1
    ELSE IF a[i] > b[i] THEN 1
    ELSE BCmpAt(a, b, i - 1)

\* -1, 0, 1 as a < b, a = b, a > b
BCmp(a, b) ==
    IF Len(a) # Len(b) THEN (IF Len(a) < Len(b) THEN -1 ELSE 1)
    ELSE BCmpAt(a, b, Len(a))

RECURSIVE BMulSmallC(_, _, _, _)
BMulSmallC(a, k, i, c) ==
    IF i > Len(a) THEN (IF c = 0 THEN <<>> ELSE <<c>>)
    ELSE LET p == a[i] * k + c
         IN  <<p % LimbBase>> \o BMulSmallC(a, k, i + 1, p \div LimbBase)

\* a * k for 0 <= k < LimbBase
BMulSmall(a, k) == BTrim(BMulSmallC(a, k, 1, 0))

\* the products of a and the limbs of b from the highest, s.j, down, summed
RECURSIVE BMulLoop(_)
BMulLoop(s) ==
    IF s.j = 0 THEN s.acc
    ELSE BMulLoop([s EXCEPT !.acc = BAddC(BMulSmall(s.a, s.b[s.j]), <<0>> \o s.acc, 1, 0),
                            !.j = s.j - 1])

BMul(a, b) == BTrim(BMulLoop([a |-> a, b |-> b, j |-> Len(b), acc |-> <<>>]))

RECURSIVE BDivSmallAt(_, _, _, _)
BDivSmallAt(a, d, i, rem) ==
    IF i = 0 THEN <<>>
    ELSE LET cur == rem * LimbBase + a[i]
         IN  Append(BDivSmallAt(a, d, i - 1, cur % d), cur \div d)

\* floor(a / d) for 0 < d < LimbBase
BDivSmall(a, d) == BTrim(BDivSmallAt(a, d, Len(a), 0))

\* a * 2^k
BShl(a, k) ==
    IF Len(a) = 0 THEN a
    ELSE [i \in 1..(k \div LimbBits) |-> 0] \o BMulSmall(a, Pow2(k % LimbBits))

\* floor(a / 2^k)
BShr(a, k) ==
    IF k \div LimbBits >= Len(a) THEN <<>>
    ELSE BDivSmall(SubSeq(a, (k \div LimbBits) + 1, Len(a)), Pow2(k % LimbBits))

\* the number of bits of a limb
SmallBitLen(n) == CHOOSE k \in 0..LimbBits : n < Pow2(k) /\ (k = 0 \/ Pow2(k - 1) <= n)

BBitLen(a) == IF Len(a) = 0 THEN 0 ELSE LimbBits * (Len(a) - 1) + SmallBitLen(a[Len(a)])

BIsOdd(a) == Len(a) > 0 /\ a[1] % 2 = 1

(***************************************************************************)
(* binary64: [sign, exp, man] is (-1)^sign * man * 2^exp with              *)
(* 2^52 <= man < 2^53, or zero (man = <<>>, exp = 0, sign = 0).            *)
(***************************************************************************)
MantBits == 50 + 3

FZero == [sign |-> 0, exp |-> 0, man |-> <<>>]

FIsZero(a) == Len(a.man) = 0

\* (-1)^sign * q * 2^e for a q of MantBits or MantBits + 1 bits
FPack(sign, q, e) ==
    IF BBitLen(q) > MantBits
    THEN [sign |-> sign, exp |-> e + 1, man |-> BShr(q, 1)]
    ELSE [sign |-> sign, exp |-> e, man |-> q]

\* n / 2^sh rounded to nearest, ties to even, for sh > 0 and
\* q = floor(n / 2^sh)
BRoundShr(n, sh, q) ==
    IF BCmp(BSub(n, BShl(q, sh)), BShl(<<1>>, sh - 1)) + (IF BIsOdd(q) THEN 1 ELSE 0) > 0
    THEN BAdd(q, <<1>>)
    ELSE q

\* FRound for an n of L bits
FRoundLen(sign, n, e, L) ==
    IF L = 0 THEN FZero
    ELSE IF L <= MantBits
    THEN [sign |-> sign, exp |-> e - (MantBits - L), man |-> BShl(n, MantBits - L)]
    ELSE FPack(sign, BRoundShr(n, L - MantBits, BShr(n, L - MantBits)), e + (L - MantBits))

\* (-1)^sign * n * 2^e rounded to nearest, ties to even
FRound(sign, n, e) == FRoundLen(sign, n, e, BBitLen(n))

\* float(i) for an int i
FFromInt(i) == FRound(IF i < 0 THEN 1 ELSE 0, BFromInt(IF i < 0 THEN -i ELSE i), 0)

FNeg(a) == IF FIsZero(a) THEN a ELSE [a EXCEPT !.sign = 1 - a.sign]

FMul(a, b) ==
    IF FIsZero(a) \/ FIsZero(b) THEN FZero
    ELSE FRound((a.sign + b.sign) % 2, BMul(a.man, b.man), a.exp + b.exp)

\* The long division of two significands works on halves of 27 bits (the
\* remainder r and the divisor b) and of 28 bits (the quotient q), each half an
\* integer: after k + 1 steps q = floor(a * 2^k / b).
Half == 128 * 1024 * 1024
QHalf == 256 * 1024 * 1024

BHi(a) == (BLimb(a, 2) \div 4096) + 8 * BLimb(a, 3) + 262144 * BLimb(a, 4)
BLo(a) == BLimb(a, 1) + LimbBase * (BLimb(a, 2) % 4096)

\* one step: the next bit of the quotient, and the remainder doubled
BDivStep(s) ==
    IF s.rhi > s.bhi \/ (s.rhi = s.bhi /\ s.rlo >= s.blo)
    THEN [s EXCEPT
             !.rhi = 2 * (s.rhi - s.bhi - (IF s.rlo < s.blo THEN 1 ELSE 0))
                         + ((2 * (s.rlo - s.blo + (IF s.rlo < s.blo THEN Half ELSE 0)))
                                \div Half),
             !.rlo = (2 * (s.rlo - s.blo + (IF s.rlo < s.blo THEN Half ELSE 0))) % Half,
             !.qhi = 2 * s.qhi + ((2 * s.qlo + 1) \div QHalf),
             !.qlo = (2 * s.qlo + 1) % QHalf,
             !.steps = s.steps - 1]
    ELSE [s EXCEPT
             !.rhi = 2 * s.rhi + ((2 * s.rlo) \div Half),
             !.rlo = (2 * s.rlo) % Half,
             !.qhi = 2 * s.qhi + ((2 * s.qlo) \div QHalf),
             !.qlo = (2 * s.qlo) % QHalf,
             !.steps = s.steps - 1]

\* the steps of the division down to `until` steps left, by halves
RECURSIVE BDivLoop(_, _)
BDivLoop(s, until) ==
    IF s.steps = until THEN s
    ELSE IF s.steps = until + 1 THEN BDivStep(s)
    ELSE BDivLoop(BDivLoop(s, (s.steps + until) \div 2), until)

\* 2 * q, plus 1 when the division left a remainder: q has at least two bits
\* more than a significand, so rounding 2 * q + 1 rounds the exact quotient
BQuotient(s) ==
    IF s.rhi = 0 /\ s.rlo = 0
    THEN BAdd(BFromInt(2 * s.qlo), BShl(BFromInt(s.qhi), 29))
    ELSE BAdd(BFromInt(2 * s.qlo + 1), BShl(BFromInt(s.qhi), 29))

\* a / b for b # 0
FDiv(a, b) ==
    IF ~FIsZero(b) /\ FIsZero(a) THEN FZero
    ELSE FRound((a.sign + b.sign) % 2,
                BQuotient(BDivLoop([rhi |-> BHi(a.man), rlo |-> BLo(a.man),
                                    bhi |-> BHi(b.man), blo |-> BLo(b.man),
                                    qhi |-> 0, qlo |-> 0, steps |-> MantBits + 3], 0)),
                a.exp - b.exp - (MantBits + 3))

\* the sum of two nonzero floats whose significands am, bm are aligned at 2^e
FAddAligned(sa, am, sb, bm, e) ==
    FRound(IF sa = sb \/ BCmp(am, bm) > 0 THEN sa ELSE sb,
           IF sa = sb THEN BAdd(am, bm)
           ELSE IF BCmp(am, bm) >= 0 THEN BSub(am, bm)
           ELSE BSub(bm, am),
           e)

FAdd(a, b) ==
    IF FIsZero(a) THEN b
    ELSE IF FIsZero(b) THEN a
    ELSE FAddAligned(a.sign, BShl(a.man, a.exp - (IF a.exp < b.exp THEN a.exp ELSE b.exp)),
                     b.sign, BShl(b.man, b.exp - (IF a.exp < b.exp THEN a.exp ELSE b.exp)),
                     IF a.exp < b.exp THEN a.exp ELSE b.exp)

FSub(a, b) == FAdd(a, FNeg(b))

FSignum(a) == IF FIsZero(a) THEN 0 ELSE IF a.sign = 1 THEN -1 ELSE 1

FCmpMag(a, b) ==
    IF a.exp # b.exp THEN (IF a.exp < b.exp THEN -1 ELSE 1) ELSE BCmp(a.man, b.man)

\* -1, 0, 1 as a < b, a = b, a > b
FCmp(a, b) ==
    IF FSignum(a) # FSignum(b) THEN (IF FSignum(a) < FSignum(b) THEN -1 ELSE 1)
    ELSE IF FSignum(a) = 0 THEN 0
    ELSE IF FSignum(a) = 1 THEN FCmpMag(a, b)
    ELSE FCmpMag(b, a)

FLe(a, b) == FCmp(a, b) <= 0

\* int(a): truncation toward zero
FTrunc(a) ==
    IF FIsZero(a) THEN 0
    ELSE (IF a.sign = 1 THEN -1 ELSE 1)
             * BToInt(IF a.exp >= 0 THEN BShl(a.man, a.exp) ELSE BShr(a.man, -a.exp))

\* max(a, b) and min(a, b) of Python: the first of two equal arguments
FMax(a, b) == IF FCmp(b, a) > 0 THEN b ELSE a
FMin(a, b) == IF FCmp(b, a) < 0 THEN b ELSE a

F0 == FZero
F1 == FFromInt(1)

(***************************************************************************)
(* State.  Each part of the program has one variable; a specification that *)
(* exercises one part leaves the others at <<>>.  An optional value (None  *)
(* or an object) is a sequence of length 0 or 1.                           *)
(*   ramp: the CharacterSet under test, the set its invert() returned and  *)
(*         the results of the get_char calls made on the two               *)
(***************************************************************************)
\* ramp: a CharacterSet and the get_char calls made on it
\* reso: a parse_resolution call, its argument and outcome
\* conv: an AsciiConverter with its ImageProcessor
\* art:  the latest convert call: what it handed on and what it returned
\* grad: a ColorHandler gradient call
\* given: the brightness and contrast most recently given to conv, and what
\*        that call raised
VARIABLES ramp, reso, conv, art, grad, given

vars == <<ramp, reso, conv, art, grad, given>>

(***************************************************************************)
(* core/character_sets.py                                                  *)
(***************************************************************************)
SIMPLE_SET == <<" ", ".", ":", "-", "=", "+", "*", "#", "%", "@">>

MINIMAL_SET == <<" ", ".", ":", "#", "@">>

\* the fourth character is the backquote, which a TLA+ string cannot hold
EXTENDED_SET ==
    <<" ", ".", "'", "backquote", "^", "\"", ",", ":", ";", "I", "l", "!", "i", ">",
      "<", "~", "+", "_", "-", "?", "]", "[", "}", "{", "1", ")", "(", "|",
      "\\", "/", "t", "f", "j", "r", "x", "n", "u", "v", "c", "z", "X", "Y",
      "U", "J", "C", "L", "Q", "0", "O", "Z", "m", "w", "q", "p", "d", "b",
      "k", "h", "a", "o", "*", "#", "M", "W", "&", "8", "%", "B", "@", "$">>

\* CharacterSet.__init__ for a non-empty charset
CharacterSet(charset) == [charset |-> charset, length |-> Len(charset)]

NewCharacterSetNeedsTwo(charset) ==
    IF Len(charset) < 2
    THEN [raised |-> "ValueError: Character set cannot be empty", self |-> <<>>]
    ELSE [raised |-> "", self |-> <<CharacterSet(charset)>>]

\* CharacterSet(charset), the whole constructor: [raised, self]
NewCharacterSet(charset) ==
    IF charset = <<>>
    THEN [raised |-> "ValueError: Character set cannot be empty", self |-> <<>>]
    ELSE [raised |-> "", self |-> <<CharacterSet(charset)>>]

\* the clamp of get_char, lines 55-56
ClampBrightness(brightness) ==
    IF ~(FLe(F0, brightness) /\ FLe(brightness, F1))
    THEN FMax(F0, FMin(F1, brightness))
    ELSE brightness

GetCharIndexFullLength(self, brightness) ==
    LET i == FTrunc(FMul(ClampBrightness(brightness), FFromInt(self.length)))
    IN  IF i >= self.length THEN self.length - 1 ELSE i

\* the index computed by get_char, line 59
GetCharIndex(self, brightness) ==
    FTrunc(FMul(ClampBrightness(brightness), FFromInt(self.length - 1)))

\* CharacterSet.get_char (Python sequences are 0-based)
get_char(self, brightness) == self.charset[GetCharIndex(self, brightness) + 1]

ReverseKeepsFirst(s) == [i \in 1..Len(s) |-> IF i = 1 THEN s[1] ELSE s[Len(s) + 2 - i]]

\* charset[::-1]
Reverse(s) == [i \in 1..Len(s) |-> s[Len(s) + 1 - i]]

InvertKeepsOrder(self) == CharacterSet(self.charset)

\* CharacterSet.invert
invert(self) == CharacterSet(Reverse(self.charset))

(***************************************************************************)
(* The ramps and brightness values the ramp specification draws from.      *)
(***************************************************************************)
MaxRampLen == 6
MaxDen == 5

Alphabet == <<"a", "b", "c", "d", "e", "f", "g", "h">>

Ramps ==
    {SubSeq(Alphabet, 1, n) : n \in 1..MaxRampLen}
        \cup {SIMPLE_SET, MINIMAL_SET, EXTENDED_SET}

\* the floats a / b in [-1, 2]
Brightnesses ==
    {FDiv(FFromInt(a), FFromInt(b)) : a \in (0 - MaxDen)..(2 * MaxDen), b \in 1..MaxDen}

RampInit ==
    /\ ramp \in [cs : {CharacterSet(r) : r \in Ramps}, v : Brightnesses,
                 got : {<<>>}, inv : {<<>>}, gotInv : {<<>>}]
    /\ reso = <<>>
    /\ conv = <<>>
    /\ art = <<>>
    /\ grad = <<>>
    /\ given = <<>>

\* cs.get_char(v)
GetChar ==
    /\ ramp.got = <<>>
    /\ ramp' = [ramp EXCEPT !.got = <<get_char(ramp.cs, ramp.v)>>]
    /\ UNCHANGED <<reso, conv, art, grad, given>>

\* inv = cs.invert()
Invert ==
    /\ ramp.inv = <<>>
    /\ ramp' = [ramp EXCEPT !.inv = <<invert(ramp.cs)>>]
    /\ UNCHANGED <<reso, conv, art, grad, given>>

\* inv.get_char(1 - v)
GetCharInverted ==
    /\ ramp.inv # <<>>
    /\ ramp.gotInv = <<>>
    /\ ramp' = [ramp EXCEPT !.gotInv = <<get_char(ramp.inv[1], FSub(F1, ramp.v))>>]
    /\ UNCHANGED <<reso, conv, art, grad, given>>

RampNext == GetChar \/ Invert \/ GetCharInverted

SpecRamp == RampInit /\ [][RampNext]_vars

(***************************************************************************)
(* Exact (unrounded) arithmetic on the value man * 2^exp of a float, for   *)
(* stating what a result is in the real numbers.                           *)
(***************************************************************************)
\* floor(v * k) for a float 0 < v < 1 and an int 0 <= k < LimbBase
ExactFloorOfProduct(v, k) == BToInt(BShr(BMulSmall(v.man, k), 0 - v.exp))

\* whether v * k is an integer, for a float 0 <= v <= 1
ExactProductIsInteger(v, k) ==
    LET m == BMulSmall(v.man, k)
    IN  FIsZero(v) \/ v.exp >= 0 \/ BShl(BShr(m, 0 - v.exp), 0 - v.exp) = m

\* whether 0 < j - v * k <= j * 2^-53 for a float 0 < v < 1: the exact product
\* lies at most one rounding step below the integer j
ExactProductJustBelow(v, k, j) ==
    LET m  == BMulSmall(v.man, k)
        jj == BShl(BFromInt(j), 0 - v.exp)
    IN  /\ BCmp(jj, m) > 0
        /\ BCmp(BShl(BSub(jj, m), MantBits), jj) <= 0

\* the index the real numbers give: floor(c * (N - 1)), c being v clamped to [0, 1]
RealIndex(cs, v) ==
    IF FCmp(v, F0) <= 0 THEN 0
    ELSE IF FCmp(v, F1) >= 0 THEN cs.length - 1
    ELSE ExactFloorOfProduct(v, cs.length - 1)

C2_InvertMirrorsEveryBrightness ==
    (/\ ramp.got # <<>>
     /\ ramp.gotInv # <<>>
     /\ FLe(F0, ramp.v)
     /\ FLe(ramp.v, F1)) => ramp.got[1] = ramp.gotInv[1]

(***************************************************************************)
(* C2, amended: ramp.get_char(v) = ramp.invert().get_char(1 - v) for every *)
(* v in [0, 1] for which v * (N-1) is an integer, in particular for v = 0  *)
(* and v = 1 and for every v when N = 1.                                   *)
(***************************************************************************)
C2_InvertMirrorsAtIndexPoints ==
    (/\ ramp.got # <<>>
     /\ ramp.gotInv # <<>>
     /\ FLe(F0, ramp.v)
     /\ FLe(ramp.v, F1)
     /\ ExactProductIsInteger(ramp.v, ramp.cs.length - 1)) => ramp.got[1] = ramp.gotInv[1]

\* both calls were made on a 5-character ramp at v = 0.5, an interior index point
C2_Witness ==
    /\ ramp.got = <<"c">>
    /\ ramp.gotInv = <<"c">>
    /\ ramp.cs.length = 5
    /\ ramp.v = FDiv(F1, FFromInt(2))

(***************************************************************************)
(* core/image_processor.py: ImageProcessor.parse_resolution.  A str is the *)
(* sequence of its characters.                                             *)
(***************************************************************************)
UpperLetters ==
    <<"A", "B", "C", "D", "E", "F", "G", "H", "I", "J", "K", "L", "M", "N", "O", "P", "Q",
      "R", "S", "T", "U", "V", "W", "X", "Y", "Z">>

LowerLetters ==
    <<"a", "b", "c", "d", "e", "f", "g", "h", "i", "j", "k", "l", "m", "n", "o", "p", "q",
      "r", "s", "t", "u", "v", "w", "x", "y", "z">>

\* str.lower() of one character, the strings being ASCII
LowerChar(c) ==
    IF \E i \in 1..Len(UpperLetters) : UpperLetters[i] = c
    THEN LowerLetters[CHOOSE i \in 1..Len(UpperLetters) : UpperLetters[i] = c]
    ELSE c

LowerIdentity(s) == s

\* str.lower()
Lower(s) == [i \in 1..Len(s) |-> LowerChar(s[i])]

UpperChar(c) ==
    CASE c = "x" -> "X" [] c = "k" -> "K" [] c = "p" -> "P" [] OTHER -> c

Upper(s) == [i \in 1..Len(s) |-> UpperChar(s[i])]

\* the presets dict of parse_resolution
presets ==
    [name \in {<<"8", "k">>, <<"4", "k">>, <<"1", "4", "4", "0", "p">>,
               <<"1", "0", "8", "0", "p">>, <<"7", "2", "0", "p">>,
               <<"4", "8", "0", "p">>} |->
        CASE name = <<"8", "k">> -> <<7680, 4320>>
          [] name = <<"4", "k">> -> <<3840, 2160>>
          [] name = <<"1", "4", "4", "0", "p">> -> <<2560, 1440>>
          [] name = <<"1", "0", "8", "0", "p">> -> <<1920, 1080>>
          [] name = <<"7", "2", "0", "p">> -> <<1280, 720>>
          [] name = <<"4", "8", "0", "p">> -> <<854, 480>>]

DigitChars == <<"0", "1", "2", "3", "4", "5", "6", "7", "8", "9">>

IsDigit(c) == \E d \in 1..Len(DigitChars) : DigitChars[d] = c

DigitVal(c) == (CHOOSE d \in 1..Len(DigitChars) : DigitChars[d] = c) - 1

\* the whitespace int() strips; of it the strings below contain the blank
IsSpace(c) == c = " "

RECURSIVE LStrip(_)
LStrip(s) == IF s # <<>> /\ IsSpace(Head(s)) THEN LStrip(Tail(s)) ELSE s

RECURSIVE RStrip(_)
RStrip(s) ==
    IF s # <<>> /\ IsSpace(s[Len(s)]) THEN RStrip(SubSeq(s, 1, Len(s) - 1)) ELSE s

\* the digit part of a decimal literal int() accepts: digits, with single
\* underscores allowed between two digits
ValidDigits(b) ==
    /\ b # <<>>
    /\ \A i \in 1..Len(b) :
          \/ IsDigit(b[i])
          \/ /\ b[i] = "_"
             /\ 1 < i
             /\ i < Len(b)
             /\ IsDigit(b[i - 1])
             /\ IsDigit(b[i + 1])

RECURSIVE DigitsValue(_, _)
DigitsValue(b, acc) ==
    IF b = <<>> THEN acc
    ELSE IF Head(b) = "_" THEN DigitsValue(Tail(b), acc)
    ELSE DigitsValue(Tail(b), 10 * acc + DigitVal(Head(b)))

\* int(s) for a str s: <<n>>, or <<>> when int() raises ValueError
PyInt(s) ==
    LET t      == RStrip(LStrip(s))
        signed == t # <<>> /\ t[1] \in {"+", "-"}
        body   == IF signed THEN Tail(t) ELSE t
    IN  IF ~ValidDigits(body) THEN <<>>
        ELSE IF signed /\ t[1] = "-" THEN <<0 - DigitsValue(body, 0)>>
        ELSE <<DigitsValue(body, 0)>>

Contains(s, c) == \E i \in 1..Len(s) : s[i] = c

\* s.split(c)[0]
RECURSIVE SplitFirst(_, _)
SplitFirst(s, c) ==
    IF s = <<>> \/ Head(s) = c THEN <<>> ELSE <<Head(s)>> \o SplitFirst(Tail(s), c)

\* what follows the first c in s
RECURSIVE AfterFirst(_, _)
AfterFirst(s, c) ==
    IF s = <<>> THEN <<>>
    ELSE IF Head(s) = c THEN Tail(s)
    ELSE AfterFirst(Tail(s), c)

\* s.split(c)[1], for an s that contains c
SplitSecond(s, c) == SplitFirst(AfterFirst(s, c), c)

Returned(value) == [raised |-> "", value |-> value]

InvalidFormat == [raised |-> "ValueError: Invalid resolution format", value |-> <<>>]

\* ImageProcessor.parse_resolution
parse_resolution(resolution_str) ==
    LET low == Lower(resolution_str)
    IN  IF low \in DOMAIN presets THEN Returned(presets[low])
        ELSE IF ~Contains(low, "x") THEN InvalidFormat
        ELSE LET width  == PyInt(SplitFirst(low, "x"))
                 height == PyInt(SplitSecond(low, "x"))
             IN  IF width = <<>> \/ height = <<>> THEN InvalidFormat
                 ELSE IF width[1] <= 0 \/ height[1] <= 0 THEN InvalidFormat
                 ELSE Returned(<<width[1], height[1]>>)

(***************************************************************************)
(* The strings the resolution specification draws from: every string of at *)
(* most MaxStrLen characters over ResAlphabet, every preset name in lower  *)
(* and in upper case, and the samples.                                     *)
(***************************************************************************)
MaxStrLen == 4

ResAlphabet == {"0", "1", "2", "x", "X", "-", "+", " ", "_"}

ResSamples ==
    {<<"i", "n", "v", "a", "l", "i", "d">>,
     <<"a", "b", "c", "x", "d", "e", "f">>,
     <<"-", "1", "0", "0", "x", "1", "0", "0">>,
     <<"1", "9", "2", "0", "x", "1", "0", "8", "0">>,
     <<"1", "9", "2", "0", "X", "1", "0", "8", "0">>,
     <<"8", "5", "4", "x", "4", "8", "0">>,
     <<"1", "x", "2", "x", "3">>,
     <<"4", "k", " ">>}

ResStrings ==
    UNION {[1..n -> ResAlphabet] : n \in 0..MaxStrLen}
        \cup DOMAIN presets
        \cup {Upper(name) : name \in DOMAIN presets}
        \cup ResSamples

ResInit ==
    /\ reso \in [str : ResStrings, result : {<<>>}]
    /\ ramp = <<>>
    /\ conv = <<>>
    /\ art = <<>>
    /\ grad = <<>>
    /\ given = <<>>

\* ImageProcessor.parse_resolution(str)
ParseResolution ==
    /\ reso.result = <<>>
    /\ reso' = [reso EXCEPT !.result = <<parse_resolution(reso.str)>>]
    /\ UNCHANGED <<ramp, conv, art, grad, given>>

ResNext == ParseResolution

SpecRes == ResInit /\ [][ResNext]_vars

\* str(n) for an int n >= 0
RECURSIVE Str(_)
Str(n) ==
    IF n < 10 THEN <<DigitChars[n + 1]>>
    ELSE Str(n \div 10) \o <<DigitChars[(n % 10) + 1]>>

AllDigits(t) == t # <<>> /\ \A i \in 1..Len(t) : IsDigit(t[i])

\* s is <digits> x <digits> or <digits> X <digits>, both integers positive, and
\* nothing else before, between or after
ExactWxH(s) ==
    \E i \in 1..Len(s) :
        /\ s[i] \in {"x", "X"}
        /\ AllDigits(SubSeq(s, 1, i - 1))
        /\ AllDigits(SubSeq(s, i + 1, Len(s)))
        /\ DigitsValue(SubSeq(s, 1, i - 1), 0) > 0
        /\ DigitsValue(SubSeq(s, i + 1, Len(s)), 0) > 0

\* the preset table as the specification states it
StatedPresets ==
    {<<<<"4", "8", "0", "p">>, <<854, 480>>>>,
     <<<<"7", "2", "0", "p">>, <<1280, 720>>>>,
     <<<<"1", "0", "8", "0", "p">>, <<1920, 1080>>>>,
     <<<<"1", "4", "4", "0", "p">>, <<2560, 1440>>>>,
     <<<<"4", "k">>, <<3840, 2160>>>>,
     <<<<"8", "k">>, <<7680, 4320>>>>}

(***************************************************************************)
(* C6, as stated: parse_resolution fails with the invalid-format error for *)
(* every string that is neither a preset name (in any case) nor of the     *)
(* exact form <positive-int>x<positive-int>, x in either case, with        *)
(* nothing else before, between or after the two integers.                 *)
(***************************************************************************)
C6_RejectsAllButPresetAndExactForm ==
    (/\ reso.result # <<>>
     /\ Lower(reso.str) \notin {p[1] : p \in StatedPresets}
     /\ ~ExactWxH(reso.str)) => reso.result[1] = InvalidFormat

(***************************************************************************)
(* C7: a preset name, in any case, parses to its dimensions (480p 854x480, *)
(* 720p 1280x720, 1080p 1920x1080, 1440p 2560x1440, 4k 3840x2160,          *)
(* 8k 7680x4320), and for all positive integers W and H the strings        *)
(* str(W) x str(H) and str(W) X str(H) parse to (W, H).                    *)
(***************************************************************************)
C7_PresetsAndCustomParse ==
    reso.result # <<>> =>
        /\ \A p \in StatedPresets :
              Lower(reso.str) = p[1] => reso.result[1] = Returned(p[2])
        /\ \A i \in 1..Len(reso.str) :
              LET l == SubSeq(reso.str, 1, i - 1)
                  r == SubSeq(reso.str, i + 1, Len(reso.str))
              IN  (/\ reso.str[i] \in {"x", "X"}
                   /\ AllDigits(l)
                   /\ AllDigits(r)) =>
                      LET W == DigitsValue(l, 0)
                          H == DigitsValue(r, 0)
                      IN  (W > 0 /\ H > 0 /\ Str(W) = l /\ Str(H) = r) =>
                              reso.result[1] = Returned(<<W, H>>)

\* 1080P, in upper case, was parsed to 1920 x 1080
C7_Witness ==
    /\ reso.str = <<"1", "0", "8", "0", "P">>
    /\ reso.result = <<Returned(<<1920, 1080>>)>>

(***************************************************************************)
(* core/color_handler.py: parse_color.                                     *)
(***************************************************************************)
HexLetters == <<"a", "b", "c", "d", "e", "f">>

IsHexDigit(c) == IsDigit(c) \/ \E d \in 1..Len(HexLetters) : HexLetters[d] = LowerChar(c)

HexDigitVal(c) ==
    IF IsDigit(c) THEN DigitVal(c)
    ELSE 9 + (CHOOSE d \in 1..Len(HexLetters) : HexLetters[d] = LowerChar(c))

\* the digit part of a base-16 literal int() accepts: hexadecimal digits,
\* with single underscores allowed between two digits
ValidHexDigits(b) ==
    /\ b # <<>>
    /\ \A i \in 1..Len(b) :
          \/ IsHexDigit(b[i])
          \/ /\ b[i] = "_"
             /\ 1 < i
             /\ i < Len(b)
             /\ IsHexDigit(b[i - 1])
             /\ IsHexDigit(b[i + 1])

RECURSIVE HexDigitsValue(_, _)
HexDigitsValue(b, acc) ==
    IF b = <<>> THEN acc
    ELSE IF Head(b) = "_" THEN HexDigitsValue(Tail(b), acc)
    ELSE HexDigitsValue(Tail(b), 16 * acc + HexDigitVal(Head(b)))

\* the literal after its sign, without the 0x or 0X prefix int(s, 16) allows
\* (an underscore may follow the prefix)
AfterHexPrefix(body) ==
    IF Len(body) >= 2 /\ body[1] = "0" /\ LowerChar(body[2]) = "x"
    THEN IF Len(body) >= 3 /\ body[3] = "_" THEN SubSeq(body, 4, Len(body))
         ELSE SubSeq(body, 3, Len(body))
    ELSE body

\* int(s, 16) for a str s: <<n>>, or <<>> when int() raises ValueError
PyIntHex(s) ==
    LET t      == RStrip(LStrip(s))
        signed == t # <<>> /\ t[1] \in {"+", "-"}
        body   == AfterHexPrefix(IF signed THEN Tail(t) ELSE t)
    IN  IF ~ValidHexDigits(body) THEN <<>>
        ELSE IF signed /\ t[1] = "-" THEN <<0 - HexDigitsValue(body, 0)>>
        ELSE <<HexDigitsValue(body, 0)>>

\* the named_colors dict of parse_color
named_colors ==
    [name \in {<<"b", "l", "a", "c", "k">>, <<"w", "h", "i", "t", "e">>, <<"r", "e", "d">>,
               <<"g", "r", "e", "e", "n">>, <<"b", "l", "u", "e">>,
               <<"y", "e", "l", "l", "o", "w">>, <<"c", "y", "a", "n">>,
               <<"m", "a", "g", "e", "n", "t", "a">>, <<"g", "r", "a", "y">>,
               <<"g", "r", "e", "y">>} |->
        CASE name = <<"b", "l", "a", "c", "k">> -> <<0, 0, 0>>
          [] name = <<"w", "h", "i", "t", "e">> -> <<255, 255, 255>>
          [] name = <<"r", "e", "d">> -> <<255, 0, 0>>
          [] name = <<"g", "r", "e", "e", "n">> -> <<0, 255, 0>>
          [] name = <<"b", "l", "u", "e">> -> <<0, 0, 255>>
          [] name = <<"y", "e", "l", "l", "o", "w">> -> <<255, 255, 0>>
          [] name = <<"c", "y", "a", "n">> -> <<0, 255, 255>>
          [] name = <<"m", "a", "g", "e", "n", "t", "a">> -> <<255, 0, 255>>
          [] name = <<"g", "r", "a", "y">> -> <<128, 128, 128>>
          [] name = <<"g", "r", "e", "y">> -> <<128, 128, 128>>]

\* the try block of parse_color on the six characters after the #
ParseHex(r, g, b) ==
    IF r = <<>> \/ g = <<>> \/ b = <<>> THEN [raised |-> "ValueError", rgb |-> <<>>]
    ELSE [raised |-> "", rgb |-> <<<<r[1], g[1], b[1]>>>>]

\* parse_color: the error it raises or <<(r, g, b)>>
parse_color(color_str) ==
    IF color_str # <<>> /\ color_str[1] = "#"
    THEN IF Len(Tail(color_str)) # 6 THEN [raised |-> "ValueError", rgb |-> <<>>]
         ELSE ParseHex(PyIntHex(SubSeq(color_str, 2, 3)), PyIntHex(SubSeq(color_str, 4, 5)),
                       PyIntHex(SubSeq(color_str, 6, 7)))
    ELSE IF Lower(color_str) \in DOMAIN named_colors
    THEN [raised |-> "", rgb |-> <<named_colors[Lower(color_str)]>>]
    ELSE [raised |-> "ValueError", rgb |-> <<>>]

(***************************************************************************)
(* The colour strings the parsing specification draws from: a # and three  *)
(* pairs over PairChars, a # and at most MaxHexLen characters F and 0, the *)
(* names in lower case, in upper case and capitalised, and other words.    *)
(***************************************************************************)
MaxHexLen == 7

PairChars == {"0", "a", "F", "g", "-", " "}

HexPairs == {<<c, d>> : c \in PairChars, d \in PairChars}

Capitalized(s) == [i \in 1..Len(s) |-> IF i = 1 THEN UpperLetters[CHOOSE k \in 1..Len(LowerLetters) : LowerLetters[k] = s[1]] ELSE s[i]]

AllUpper(s) == [i \in 1..Len(s) |-> UpperLetters[CHOOSE k \in 1..Len(LowerLetters) : LowerLetters[k] = s[i]]]

ColorStrings ==
    {<<"#">> \o p \o q \o r : p \in HexPairs, q \in HexPairs, r \in HexPairs}
        \cup {<<"#">> \o w : w \in UNION {[1..n -> {"F", "0"}] : n \in 0..MaxHexLen}}
        \cup DOMAIN named_colors
        \cup {Capitalized(n) : n \in DOMAIN named_colors}
        \cup {AllUpper(n) : n \in DOMAIN named_colors}
        \cup {<<>>, <<"n", "o", "t", "a", "c", "o", "l", "o", "r">>, <<" ", "r", "e", "d">>,
              <<"r", "e", "d", "d">>, <<"F", "F", "0", "0", "0", "0">>,
              <<"#", "r", "e", "d">>, <<"#", "0", "x", "0", "x", "0", "x">>,
              <<"#", "1", "2", "3", "4", "5", "6">>, <<"#", "7", "8", "9", "b", "c", "d">>,
              <<"#", "e", "f", "A", "B", "C", "D">>, <<"#", "E", "F", "f", "f", "f", "f">>,
              <<"#", "G", "G", "G", "G", "G", "G">>, <<"#", "+", "1", "_", "1", "1", "_">>}

ColorInit ==
    /\ \E color_str \in ColorStrings : grad = [color_str |-> color_str, parsed |-> <<>>]
    /\ ramp = <<>>
    /\ reso = <<>>
    /\ conv = <<>>
    /\ art = <<>>
    /\ given = <<>>

\* parse_color(color_str)
ParseColor ==
    /\ grad.parsed = <<>>
    /\ grad' = [grad EXCEPT !.parsed = <<parse_color(grad.color_str)>>]
    /\ UNCHANGED <<ramp, reso, conv, art, given>>

ColorNext == ParseColor

SpecColor == ColorInit /\ [][ColorNext]_vars

(***************************************************************************)
(* core/color_handler.py.  An array of shape (height, width, 3) is the     *)
(* sequence of its rows, a row the sequence of its <<r, g, b>> cells; an   *)
(* optional argument is <<>> for None and <<value>> otherwise.             *)
(***************************************************************************)
BLACK_WHITE == "black-white"
SOURCE == "source"
RAINBOW == "rainbow"
GRADIENT == "gradient"
SOLID == "solid"

\* ColorHandler.__init__; gradient_colors is a list, empty for None
ColorHandler(mode, bg_color, text_color, gradient_colors, gradient_direction) ==
    [mode               |-> mode,
     bg_color           |-> IF bg_color = <<>> THEN <<0, 0, 0>> ELSE bg_color[1],
     text_color         |-> IF text_color = <<>> THEN <<255, 255, 255>> ELSE text_color[1],
     gradient_colors    |-> IF gradient_colors = <<>>
                            THEN <<<<255, 0, 0>>, <<0, 0, 255>>>>
                            ELSE gradient_colors,
     gradient_direction |-> gradient_direction]

\* np.zeros((height, width, 3))
Zeros(width, height) == [y \in 1..height |-> [x \in 1..width |-> <<0, 0, 0>>]]

\* _hsv_to_rgb, "i = int(h)" and "f = h - i", for h6 the product h * 6.0
HsvSplit(h6) == [i |-> FTrunc(h6), f |-> FSub(h6, FFromInt(FTrunc(h6)))]

\* _hsv_to_rgb, the locals after "i = i % 6", for l = [i, f]
HsvLevels(s, v, l) ==
    [i |-> l.i % 6,
     v |-> v,
     p |-> FMul(v, FSub(F1, s)),
     q |-> FMul(v, FSub(F1, FMul(s, l.f))),
     t |-> FMul(v, FSub(F1, FMul(s, FSub(F1, l.f))))]

\* _hsv_to_rgb, the choice of r, g, b by sector
HsvSector(l) ==
    CASE l.i = 0 -> <<l.v, l.t, l.p>>
      [] l.i = 1 -> <<l.q, l.v, l.p>>
      [] l.i = 2 -> <<l.p, l.v, l.t>>
      [] l.i = 3 -> <<l.p, l.q, l.v>>
      [] l.i = 4 -> <<l.t, l.p, l.v>>
      [] OTHER   -> <<l.v, l.p, l.q>>

HsvBytesRounded(rgb) ==
    [c \in 1..3 |-> FTrunc(FAdd(FMul(rgb[c], FFromInt(255)), FDiv(F1, FFromInt(2))))]

\* _hsv_to_rgb, the return: (int(r * 255), int(g * 255), int(b * 255))
HsvBytes(rgb) == [c \in 1..3 |-> FTrunc(FMul(rgb[c], FFromInt(255)))]

\* ColorHandler._hsv_to_rgb
_hsv_to_rgb(h, s, v) ==
    IF FIsZero(s)
    THEN HsvBytes(<<v, v, v>>)
    ELSE HsvBytes(HsvSector(HsvLevels(s, v, HsvSplit(FMul(h, FFromInt(6))))))

\* numpy: a slice assignment writes the one value to each of the n places
Broadcast(value, n) == [i \in 1..n |-> value]

RainbowIgnoresDirection(self, width, height) ==
    Broadcast([x \in 1..width |->
                  _hsv_to_rgb(FDiv(FFromInt(x - 1), FFromInt(width)), F1, F1)],
              height)

\* ColorHandler.generate_rainbow_gradient
generate_rainbow_gradient(self, width, height) ==
    IF self.gradient_direction = "horizontal"
    THEN Broadcast([x \in 1..width |->
                       _hsv_to_rgb(FDiv(FFromInt(x - 1), FFromInt(width)), F1, F1)],
                   height)
    ELSE IF self.gradient_direction = "vertical"
    THEN [y \in 1..height |->
            Broadcast(_hsv_to_rgb(FDiv(FFromInt(y - 1), FFromInt(height)), F1, F1),
                      width)]
    ELSE IF self.gradient_direction = "diagonal"
    THEN [y \in 1..height |-> [x \in 1..width |->
            _hsv_to_rgb(FDiv(FFromInt((x - 1) + (y - 1)), FFromInt(width + height)),
                        F1, F1)]]
    ELSE Zeros(width, height)

\* _interpolate_colors, the return statement: the channels at local_pos
\* between color1 and color2
InterpolateChannels(color1, color2, local_pos) ==
    [c \in 1..3 |->
        FTrunc(FAdd(FFromInt(color1[c]),
                    FMul(FFromInt(color2[c] - color1[c]), local_pos)))]

\* _interpolate_colors from "if segment >= num_colors - 1" on
InterpolateSegment(self, p, segment_size, segment, num_colors) ==
    IF segment >= num_colors - 1
    THEN self.gradient_colors[Len(self.gradient_colors)]
    ELSE InterpolateChannels(
             self.gradient_colors[segment + 1],
             self.gradient_colors[segment + 2],
             FDiv(FSub(p, FMul(FFromInt(segment), segment_size)), segment_size))

\* ColorHandler._interpolate_colors: pos is clamped to p, segment_size is
\* 1.0 / (num_colors - 1) and segment is int(p / segment_size)
_interpolate_colors(self, pos, num_colors) ==
    InterpolateSegment(self,
                       FMax(F0, FMin(F1, pos)),
                       FDiv(F1, FFromInt(num_colors - 1)),
                       FTrunc(FDiv(FMax(F0, FMin(F1, pos)),
                                   FDiv(F1, FFromInt(num_colors - 1)))),
                       num_colors)

\* ColorHandler.generate_custom_gradient
generate_custom_gradient(self, width, height) ==
    IF Len(self.gradient_colors) < 2
    THEN [y \in 1..height |-> [x \in 1..width |-> self.gradient_colors[1]]]
    ELSE IF self.gradient_direction = "horizontal"
    THEN Broadcast([x \in 1..width |->
                       _interpolate_colors(self,
                           IF width > 1
                           THEN FDiv(FFromInt(x - 1), FFromInt(width - 1))
                           ELSE F0,
                           Len(self.gradient_colors))],
                   height)
    ELSE IF self.gradient_direction = "vertical"
    THEN [y \in 1..height |->
            Broadcast(_interpolate_colors(self,
                          IF height > 1
                          THEN FDiv(FFromInt(y - 1), FFromInt(height - 1))
                          ELSE F0,
                          Len(self.gradient_colors)),
                      width)]
    ELSE IF self.gradient_direction = "diagonal"
    THEN [y \in 1..height |-> [x \in 1..width |->
            _interpolate_colors(self,
                IF width + height - 2 > 0
                THEN FDiv(FFromInt((x - 1) + (y - 1)), FFromInt(width + height - 2))
                ELSE F0,
                Len(self.gradient_colors))]]
    ELSE Zeros(width, height)

\* ColorHandler.generate_solid_colors
generate_solid_colors(self, width, height) ==
    [y \in 1..height |-> [x \in 1..width |-> self.text_color]]

(***************************************************************************)
(* The gradient calls the gradient specification draws from: stop lists of *)
(* 1 to MaxStops stops that alternate between the two colours of a pair,   *)
(* on grids of at most MaxWidth by MaxHeight cells.                        *)
(***************************************************************************)
MaxStops == 6
MaxWidth == 6
MaxHeight == 2

StopPairs ==
    {<<<<0, 0, 0>>, <<255, 255, 255>>>>,
     <<<<255, 0, 0>>, <<0, 0, 255>>>>,
     <<<<3, 0, 0>>, <<0, 0, 0>>>>}

GradientStops ==
    {[i \in 1..n |-> IF i % 2 = 1 THEN p[1] ELSE p[2]] : n \in 1..MaxStops, p \in StopPairs}

Directions == {"horizontal", "vertical", "diagonal"}

\* a list of twelve stops that alternate between two colours
LongStops == [i \in 1..12 |-> IF i % 2 = 1 THEN <<200, 100, 7>> ELSE <<13, 250, 99>>]

\* the call generate_custom_gradient(12, 1) on the twelve stops, horizontal
GradientSamples ==
    {[handler |-> ColorHandler(GRADIENT, <<>>, <<>>, LongStops, "horizontal"),
      width |-> 12, height |-> 1, colors |-> <<>>]}

GradientInit ==
    /\ grad \in [handler : {ColorHandler(GRADIENT, <<>>, <<>>, stops, d) :
                               stops \in GradientStops, d \in Directions},
                 width : 1..MaxWidth, height : 1..MaxHeight, colors : {<<>>}]
                    \cup GradientSamples
    /\ ramp = <<>>
    /\ reso = <<>>
    /\ conv = <<>>
    /\ art = <<>>
    /\ given = <<>>

\* handler.generate_custom_gradient(width, height)
GenerateCustomGradient ==
    /\ grad.colors = <<>>
    /\ grad' = [grad EXCEPT !.colors =
                   <<generate_custom_gradient(grad.handler, grad.width, grad.height)>>]
    /\ UNCHANGED <<ramp, reso, conv, art, given>>

GradientNext == GenerateCustomGradient

SpecGradient == GradientInit /\ [][GradientNext]_vars

(***************************************************************************)
(* The reference of C10 in exact arithmetic.  The position of a cell is    *)
(* the fraction num / den.                                                 *)
(***************************************************************************)
\* <<num, den>> for the cell in column x, row y (both from 0)
ReferencePosition(direction, width, height, x, y) ==
    CASE direction = "horizontal" -> IF width = 1 THEN <<0, 1>> ELSE <<x, width - 1>>
      [] direction = "vertical"   -> IF height = 1 THEN <<0, 1>> ELSE <<y, height - 1>>
      [] direction = "diagonal"   -> IF width + height - 2 = 0 THEN <<0, 1>>
                                     ELSE <<x + y, width + height - 2>>

\* segment floor(pos * (N-1)); channel trunc(c1 + (c2 - c1) * local) with
\* local = pos * (N-1) - segment, which is c1 + floor((c2 - c1) * local)
ReferenceColor(stops, pos) ==
    LET N       == Len(stops)
        scaled  == pos[1] * (N - 1)
        segment == scaled \div pos[2]
        rest    == scaled - segment * pos[2]
    IN  IF N = 1 THEN stops[1]
        ELSE IF segment >= N - 1 THEN stops[N]
        ELSE [c \in 1..3 |->
                stops[segment + 1][c]
                    + (((stops[segment + 2][c] - stops[segment + 1][c]) * rest)
                           \div pos[2])]

(***************************************************************************)
(* C10, as stated: generate_custom_gradient(width, height) equals the      *)
(* reference for every list of N >= 1 stops and every width, height >= 1:  *)
(* every cell is the reference colour at the cell's position, so that a    *)
(* cell exactly on a junction pos = k/(N-1) gets exactly stop k.           *)
(***************************************************************************)
C10_GradientEqualsReference ==
    grad.colors # <<>> =>
        /\ Len(grad.colors[1]) = grad.height
        /\ \A y \in 1..grad.height :
              /\ Len(grad.colors[1][y]) = grad.width
              /\ \A x \in 1..grad.width :
                    grad.colors[1][y][x] =
                        ReferenceColor(grad.handler.gradient_colors,
                            ReferencePosition(grad.handler.gradient_direction,
                                              grad.width, grad.height, x - 1, y - 1))

(***************************************************************************)
(* C11, as stated: a single-stop gradient fills the grid with that colour; *)
(* for N >= 2 stops, horizontal, on a grid of width >= 2, every cell of    *)
(* the leftmost column is the first stop, every cell of the rightmost      *)
(* column is the last stop, and every channel of an interior cell lies     *)
(* between the channels of the two stops of the cell's segment.  The       *)
(* segment of column x (from 0) is floor(x * (N-1) / (width-1)); a cell on *)
(* a junction is allowed the segment before it as well.                    *)
(***************************************************************************)
Between(v, a, b) == (a <= v /\ v <= b) \/ (b <= v /\ v <= a)

\* the segments (from 0) a cell in column x (from 0) may be counted to
SegmentsOfColumn(x, width, N) ==
    {seg \in 0..(N - 2) :
        \/ seg = (x * (N - 1)) \div (width - 1)
        \/ /\ (x * (N - 1)) % (width - 1) = 0
           /\ seg + 1 = (x * (N - 1)) \div (width - 1)}

InteriorBetweenStops(cell, stops, segs) ==
    \E seg \in segs :
        \A c \in 1..3 : Between(cell[c], stops[seg + 1][c], stops[seg + 2][c])

C11_HorizontalEndsAndBetween ==
    grad.colors # <<>> =>
        /\ Len(grad.handler.gradient_colors) = 1 =>
               \A y \in 1..grad.height : \A x \in 1..grad.width :
                   grad.colors[1][y][x] = grad.handler.gradient_colors[1]
        /\ (/\ Len(grad.handler.gradient_colors) >= 2
            /\ grad.handler.gradient_direction = "horizontal"
            /\ grad.width >= 2) =>
               \A y \in 1..grad.height :
                   /\ grad.colors[1][y][1] = grad.handler.gradient_colors[1]
                   /\ grad.colors[1][y][grad.width]
                          = grad.handler.gradient_colors[Len(grad.handler.gradient_colors)]
                   /\ \A x \in 2..(grad.width - 1) :
                          InteriorBetweenStops(
                              grad.colors[1][y][x], grad.handler.gradient_colors,
                              SegmentsOfColumn(x - 1, grad.width,
                                               Len(grad.handler.gradient_colors)))

(***************************************************************************)
(* The rainbow calls the rainbow specification draws from: each direction  *)
(* on grids of at most MaxWidth cells a side, and diagonal grids of        *)
(* 10 and 11 cells a side.                                                 *)
(***************************************************************************)
RainbowSamples ==
    [handler : {ColorHandler(RAINBOW, <<>>, <<>>, <<>>, "diagonal")},
     width : {10, 11}, height : {10, 11}, colors : {<<>>}]

RainbowInit ==
    /\ grad \in [handler : {ColorHandler(RAINBOW, <<>>, <<>>, <<>>, d) : d \in Directions},
                 width : 1..MaxWidth, height : 1..MaxWidth, colors : {<<>>}]
                    \cup RainbowSamples
    /\ ramp = <<>>
    /\ reso = <<>>
    /\ conv = <<>>
    /\ art = <<>>
    /\ given = <<>>

\* handler.generate_rainbow_gradient(width, height)
GenerateRainbowGradient ==
    /\ grad.colors = <<>>
    /\ grad' = [grad EXCEPT !.colors =
                   <<generate_rainbow_gradient(grad.handler, grad.width, grad.height)>>]
    /\ UNCHANGED <<ramp, reso, conv, art, given>>

RainbowNext == GenerateRainbowGradient

SpecRainbow == RainbowInit /\ [][RainbowNext]_vars

\* the hue of the cell in column x, row y (both from 0), as C12 states it
StatedHue(direction, width, height, x, y) ==
    CASE direction = "horizontal" -> FDiv(FFromInt(x), FFromInt(width))
      [] direction = "vertical"   -> FDiv(FFromInt(y), FFromInt(height))
      [] direction = "diagonal"   -> FDiv(FFromInt(x + y), FFromInt(width + height))

(***************************************************************************)
(* C12: generate_rainbow_gradient(width, height) gives the cell in column  *)
(* x, row y the colour _hsv_to_rgb(hue, 1, 1) with hue = x / width for     *)
(* horizontal, y / height for vertical and (x + y) / (width + height) for  *)
(* diagonal; horizontal rows are all the same and vertical columns are all *)
(* the same; on a diagonal grid of width and height >= 10 the colour of    *)
(* cell (0, 0) differs from that of cell (height // 2, width // 2).        *)
(***************************************************************************)
C12_RainbowHueByDirection ==
    grad.colors # <<>> =>
        /\ Len(grad.colors[1]) = grad.height
        /\ \A y \in 1..grad.height :
              /\ Len(grad.colors[1][y]) = grad.width
              /\ \A x \in 1..grad.width :
                    /\ grad.colors[1][y][x] =
                          _hsv_to_rgb(StatedHue(grad.handler.gradient_direction,
                                                grad.width, grad.height, x - 1, y - 1),
                                      F1, F1)
                    /\ grad.handler.gradient_direction = "horizontal" =>
                          grad.colors[1][y][x] = grad.colors[1][1][x]
                    /\ grad.handler.gradient_direction = "vertical" =>
                          grad.colors[1][y][x] = grad.colors[1][y][1]
        /\ (/\ grad.handler.gradient_direction = "diagonal"
            /\ grad.width >= 10
            /\ grad.height >= 10) =>
               grad.colors[1][1][1]
                   # grad.colors[1][(grad.height \div 2) + 1][(grad.width \div 2) + 1]

\* a diagonal rainbow of 10 x 10 cells was generated: red in the corner, cyan
\* in the centre
C12_Witness ==
    /\ grad.colors # <<>>
    /\ grad.handler.gradient_direction = "diagonal"
    /\ grad.width = 10
    /\ grad.height = 10
    /\ grad.colors[1][1][1] = <<255, 0, 0>>
    /\ grad.colors[1][6][6] = <<0, 255, 255>>

(***************************************************************************)
(* The _hsv_to_rgb calls the conversion specification draws from: h, s and *)
(* v among the floats a / b of [0, 1] with b <= MaxDen.                    *)
(***************************************************************************)
UnitFloats == {u \in Brightnesses : FLe(F0, u) /\ FLe(u, F1)}

HsvInit ==
    /\ grad \in [h : UnitFloats, s : UnitFloats, v : UnitFloats, rgb : {<<>>}]
    /\ ramp = <<>>
    /\ reso = <<>>
    /\ conv = <<>>
    /\ art = <<>>
    /\ given = <<>>

\* handler._hsv_to_rgb(h, s, v)
HsvToRgb ==
    /\ grad.rgb = <<>>
    /\ grad' = [grad EXCEPT !.rgb = <<_hsv_to_rgb(grad.h, grad.s, grad.v)>>]
    /\ UNCHANGED <<ramp, reso, conv, art, given>>

HsvNext == HsvToRgb

SpecHsv == HsvInit /\ [][HsvNext]_vars

\* trunc(channel * 255)
StatedByte(channel) == FTrunc(FMul(channel, FFromInt(255)))

\* (r, g, b) for sector i, as C13 lists them
StatedSector(i, v, p, q, t) ==
    CASE i = 0 -> <<v, t, p>>
      [] i = 1 -> <<q, v, p>>
      [] i = 2 -> <<p, v, t>>
      [] i = 3 -> <<p, q, v>>
      [] i = 4 -> <<t, p, v>>
      [] i = 5 -> <<v, p, q>>

\* the conversion for s # 0, as C13 states it, for h6 = h * 6 and
\* f = h6 - floor(h6)
StatedConversion(h6, f, s, v) ==
    StatedSector(FTrunc(h6) % 6, v,
                 FMul(v, FSub(F1, s)),
                 FMul(v, FSub(F1, FMul(s, f))),
                 FMul(v, FSub(F1, FMul(s, FSub(F1, f)))))

(***************************************************************************)
(* C13: for h, s, v in [0, 1], _hsv_to_rgb(h, s, v) is (trunc(v * 255),) * *)
(* 3 when s = 0 and otherwise, with i = floor(h * 6) mod 6,                *)
(* f = h * 6 - floor(h * 6), p = v (1 - s), q = v (1 - s f) and            *)
(* t = v (1 - s (1 - f)), the channels (v,t,p), (q,v,p), (p,v,t),          *)
(* (p,q,v), (t,p,v), (v,p,q) for i = 0..5, each as trunc(channel * 255);   *)
(* every channel is an integer in 0..255; (0, 1, 1) gives (255, 0, 0) and  *)
(* (0, 0, 1) gives (255, 255, 255).  The arithmetic is that of the code,   *)
(* binary64.                                                               *)
(***************************************************************************)
C13_HsvSixSectors ==
    grad.rgb # <<>> =>
        /\ \A c \in 1..3 : grad.rgb[1][c] \in 0..255
        /\ FIsZero(grad.s) =>
              \A c \in 1..3 : grad.rgb[1][c] = StatedByte(grad.v)
        /\ ~FIsZero(grad.s) =>
              \A c \in 1..3 :
                  grad.rgb[1][c] =
                      StatedByte(StatedConversion(
                          FMul(grad.h, FFromInt(6)),
                          FSub(FMul(grad.h, FFromInt(6)),
                               FFromInt(FTrunc(FMul(grad.h, FFromInt(6))))),
                          grad.s, grad.v)[c])
        /\ (FIsZero(grad.h) /\ grad.s = F1 /\ grad.v = F1) => grad.rgb[1] = <<255, 0, 0>>
        /\ (FIsZero(grad.h) /\ FIsZero(grad.s) /\ grad.v = F1) =>
              grad.rgb[1] = <<255, 255, 255>>

\* _hsv_to_rgb(0.25, 1.0, 1.0) returned (127, 255, 0), from sector 1
C13_Witness ==
    /\ grad.rgb = <<<<127, 255, 0>>>>
    /\ grad.h = FDiv(F1, FFromInt(4))
    /\ grad.s = F1
    /\ grad.v = F1

(***************************************************************************)
(* core/image_processor.py: ImageProcessor.  An image is its size and its  *)
(* pixels px, rows of <<r, g, b>> cells; an image file is [kind, seed],    *)
(* kind being "missing", "corrupt" or "image".  PIL and numpy do the       *)
(* loading, resampling, enhancing and conversion: what they return is      *)
(* given by the operators marked PIL and numpy.                            *)
(***************************************************************************)
CHAR_ASPECT_RATIO == FDiv(F1, FFromInt(2))

ClampAboveOnly(v) == IF v > 100 THEN 100 ELSE v

\* max(-100, min(100, v))
Clamp100(v) ==
    LET low == IF 100 < v THEN 100 ELSE v
    IN  IF low > -100 THEN low ELSE -100

\* ImageProcessor.__init__
ImageProcessor(brightness, contrast, aspect_correct) ==
    [brightness     |-> Clamp100(brightness),
     contrast       |-> Clamp100(contrast),
     aspect_correct |-> aspect_correct]

\* the colours the pixels of the image files are drawn from
Palette ==
    <<<<0, 0, 0>>, <<255, 255, 255>>, <<200, 30, 30>>, <<20, 120, 240>>, <<128, 128, 128>>>>

\* ImageProcessor.load_image: [raised, image]
load_image(image_path) ==
    IF image_path.kind = "missing"
    THEN [raised |-> "FileNotFoundError", image |-> <<>>]
    ELSE IF image_path.kind = "corrupt"
    THEN [raised |-> "ValueError: Failed to load image", image |-> <<>>]
    ELSE [raised |-> "", image |-> <<[seed |-> image_path.seed]>>]

\* PIL: image.resize((width, height), LANCZOS), which raises ValueError unless
\* width and height are >= 1: [raised, size, image], size being the (width,
\* height) asked for
Resize(image, width, height) ==
    IF width < 1 \/ height < 1
    THEN [raised |-> "ValueError: height and width must be > 0",
          size   |-> <<width, height>>, image |-> <<>>]
    ELSE [raised |-> "", size |-> <<width, height>>,
          image  |-> <<[size |-> <<width, height>>,
                        px   |-> [y \in 1..height |-> [x \in 1..width |->
                                    Palette[((image.seed + 2 * x + 3 * y) % Len(Palette))
                                                + 1]]]]>>]

ResizeKeepsHeight(self, image, target_width, target_height) ==
    Resize(image, target_width, target_height)

\* ImageProcessor.resize_image: what image.resize returned or raised
resize_image(self, image, target_width, target_height) ==
    Resize(image, target_width,
           IF self.aspect_correct
           THEN FTrunc(FMul(FFromInt(target_height), CHAR_ASPECT_RATIO))
           ELSE target_height)

\* factor = 1.0 + (v / 100.0)
EnhanceFactor(v) == FAdd(F1, FDiv(FFromInt(v), FFromInt(100)))

\* PIL: a level clipped to 0..255
Clip8(out) == IF out < 0 THEN 0 ELSE IF out > 255 THEN 255 ELSE out

\* PIL: Image.blend(degenerate, image, factor) on one channel, degenerate being
\* a flat image of level base
Blend(base, c, factor) ==
    Clip8(FTrunc(FAdd(FFromInt(base), FMul(factor, FFromInt(c - base)))))

\* PIL: the level of a pixel in image.convert("L")
Luma(p) == (p[1] * 19595 + p[2] * 38470 + p[3] * 7471 + 32768) \div 65536

\* PIL: ImageEnhance's enhance(factor), the blend of every channel of every
\* pixel with the level base
Enhance(image, base, factor) ==
    [image EXCEPT !.px = [y \in 1..Len(image.px) |-> [x \in 1..Len(image.px[y]) |->
        [c \in 1..3 |-> Blend(base, image.px[y][x][c], factor)]]]]

\* ImageProcessor.apply_brightness; PIL blends with black
apply_brightness(self, image) ==
    IF self.brightness = 0 THEN image
    ELSE Enhance(image, 0, EnhanceFactor(self.brightness))

\* ImageProcessor.apply_contrast; PIL blends with the mean level of the image
apply_contrast(self, image) ==
    IF self.contrast = 0 THEN image
    ELSE LET cells  == {<<x, y>> : x \in 1..image.size[1], y \in 1..image.size[2]}
             RECURSIVE Sum(_)
             Sum(S) == IF S = {} THEN 0
                       ELSE LET e == CHOOSE e \in S : TRUE
                            IN  Luma(image.px[e[2]][e[1]]) + Sum(S \ {e})
         IN  Enhance(image,
                     (2 * Sum(cells) + Cardinality(cells)) \div (2 * Cardinality(cells)),
                     EnhanceFactor(self.contrast))

\* numpy: a float rounded to float32 (24 significant bits), ties to even
FSingle(a) ==
    IF FIsZero(a) THEN a
    ELSE FRound(a.sign, BRoundShr(a.man, MantBits - 24, BShr(a.man, MantBits - 24)),
                a.exp + (MantBits - 24))

\* numpy: np.float32(level) / 255.0 for the levels of a uint8 array
LuminanceOf == [level \in 0..255 |-> FSingle(FDiv(FFromInt(level), FFromInt(255)))]

\* ImageProcessor.to_grayscale
to_grayscale(image) ==
    [y \in 1..Len(image.px) |-> [x \in 1..Len(image.px[y]) |->
        LuminanceOf[Luma(image.px[y][x])]]]

ToRgbArrayOfLevels(image) ==
    [y \in 1..Len(image.px) |-> [x \in 1..Len(image.px[y]) |->
        [c \in 1..3 |-> Luma(image.px[y][x])]]]

\* ImageProcessor.to_rgb_array
to_rgb_array(image) == image.px

\* process from "grayscale = self.to_grayscale(img)" on
ProcessEnhanced(size, img) ==
    [raised |-> "", size |-> <<size>>, grayscale |-> to_grayscale(img), rgb |-> img.px]

\* process from "img = self.apply_brightness(img)" on, resized being what
\* resize_image returned or raised
ProcessResized(self, resized) ==
    IF resized.raised # ""
    THEN [raised |-> resized.raised, size |-> <<resized.size>>,
          grayscale |-> <<>>, rgb |-> <<>>]
    ELSE ProcessEnhanced(resized.size,
                         apply_contrast(self, apply_brightness(self, resized.image[1])))

\* ImageProcessor.process: [raised, size, grayscale, rgb]; size is <<>> when
\* resize_image was not reached and <<s>>, s the size handed to image.resize,
\* otherwise
process(self, image_path, target_size) ==
    IF load_image(image_path).raised # ""
    THEN [raised |-> load_image(image_path).raised, size |-> <<>>,
          grayscale |-> <<>>, rgb |-> <<>>]
    ELSE ProcessResized(self,
                        resize_image(self, load_image(image_path).image[1],
                                     target_size[1], target_size[2]))

(***************************************************************************)
(* core/converter.py.  A resolution argument is <<"str", s>> for a string  *)
(* and <<"tuple", <<w, h>>>> for a tuple; a charset argument is <<>> for   *)
(* None and <<s>> for a string.                                            *)
(***************************************************************************)
\* AsciiArt.__init__
AsciiArt(char_grid, color_grid, width, height, color_handler) ==
    [char_grid |-> char_grid, color_grid |-> color_grid, width |-> width,
     height |-> height, color_handler |-> color_handler]

\* AsciiConverter.__init__: [raised, self]
AsciiConverter(resolution, charset, brightness, contrast, inv, aspect_correct, color_handler) ==
    LET parsed == IF resolution[1] = "str" THEN parse_resolution(resolution[2])
                  ELSE Returned(resolution[2])
        cs     == IF charset = <<>> THEN NewCharacterSet(EXTENDED_SET)
                  ELSE NewCharacterSet(charset[1])
    IN  IF parsed.raised # "" THEN [raised |-> parsed.raised, self |-> <<>>]
        ELSE IF cs.raised # "" THEN [raised |-> cs.raised, self |-> <<>>]
        ELSE [raised |-> "",
              self   |-> <<[resolution    |-> parsed.value,
                            charset       |-> IF inv THEN invert(cs.self[1])
                                              ELSE cs.self[1],
                            processor     |-> ImageProcessor(brightness, contrast,
                                                             aspect_correct),
                            color_handler |-> color_handler]>>]

\* AsciiConverter.set_resolution: [raised, self]
set_resolution(self, resolution) ==
    LET parsed == IF resolution[1] = "str" THEN parse_resolution(resolution[2])
                  ELSE Returned(resolution[2])
    IN  IF parsed.raised # "" THEN [raised |-> parsed.raised, self |-> self]
        ELSE [raised |-> "", self |-> [self EXCEPT !.resolution = parsed.value]]

SetCharsetReversed(self, charset) ==
    IF charset[1] = "str"
    THEN IF NewCharacterSet(charset[2]).raised # ""
         THEN [raised |-> NewCharacterSet(charset[2]).raised, self |-> self]
         ELSE [raised |-> "",
               self   |-> [self EXCEPT !.charset =
                              invert(NewCharacterSet(charset[2]).self[1])]]
    ELSE [raised |-> "", self |-> [self EXCEPT !.charset = invert(charset[2])]]

\* AsciiConverter.set_charset, the argument being <<"str", s>> for a string
\* and <<"obj", cs>> for a CharacterSet: [raised, self]
set_charset(self, charset) ==
    IF charset[1] = "str"
    THEN IF NewCharacterSet(charset[2]).raised # ""
         THEN [raised |-> NewCharacterSet(charset[2]).raised, self |-> self]
         ELSE [raised |-> "",
               self   |-> [self EXCEPT !.charset = NewCharacterSet(charset[2]).self[1]]]
    ELSE [raised |-> "", self |-> [self EXCEPT !.charset = charset[2]]]

ColorGridAlwaysSource(self, source_rgb, width, height) == source_rgb

\* AsciiConverter._generate_color_grid
_generate_color_grid(self, source_rgb, width, height) ==
    IF self.color_handler = <<>> THEN source_rgb
    ELSE LET handler == self.color_handler[1]
         IN  CASE handler.mode = RAINBOW  -> generate_rainbow_gradient(handler, width, height)
               [] handler.mode = GRADIENT -> generate_custom_gradient(handler, width, height)
               [] handler.mode = SOLID    -> generate_solid_colors(handler, width, height)
               [] OTHER                   -> source_rgb

GrayscaleToFirstChar(self, grayscale) ==
    [y \in 1..Len(grayscale) |-> [x \in 1..Len(grayscale[y]) |-> self.charset.charset[1]]]

\* AsciiConverter._grayscale_to_chars
_grayscale_to_chars(self, grayscale) ==
    [y \in 1..Len(grayscale) |-> [x \in 1..Len(grayscale[y]) |->
        get_char(self.charset, grayscale[y][x])]]

ConvertedRecordsRequestedHeight(self, p) ==
    IF p.raised # ""
    THEN [raised |-> p.raised, size |-> p.size, grayscale |-> <<>>, rgb |-> <<>>,
          art |-> <<>>]
    ELSE [raised |-> "", size |-> p.size, grayscale |-> p.grayscale, rgb |-> p.rgb,
          art |-> <<AsciiArt(_grayscale_to_chars(self, p.grayscale),
                             _generate_color_grid(self, p.rgb, Len(p.grayscale[1]),
                                                  Len(p.grayscale)),
                             self.resolution[1], self.resolution[2],
                             self.color_handler)>>]

\* convert from "actual_height, actual_width = grayscale.shape" on, p being
\* what process returned or raised
Converted(self, p) ==
    IF p.raised # ""
    THEN [raised |-> p.raised, size |-> p.size, grayscale |-> <<>>, rgb |-> <<>>,
          art |-> <<>>]
    ELSE LET actual_height == Len(p.grayscale)
             actual_width  == Len(p.grayscale[1])
         IN  [raised |-> "", size |-> p.size, grayscale |-> p.grayscale, rgb |-> p.rgb,
              art |-> <<AsciiArt(_grayscale_to_chars(self, p.grayscale),
                                 _generate_color_grid(self, p.rgb, actual_width,
                                                      actual_height),
                                 self.resolution[1], actual_height,
                                 self.color_handler)>>]

\* AsciiConverter.convert: [raised, size, grayscale, rgb, art], size, grayscale
\* and rgb being what process returned and art <<>> or <<the AsciiArt>>
convert(self, image_path) ==
    Converted(self, process(self.processor, image_path, self.resolution))

(***************************************************************************)
(* Text output.  A str is the sequence of its characters, the escape       *)
(* character being "\\033"; a glyph is a str of one character, held as     *)
(* that character.                                                         *)
(***************************************************************************)
ESC == "\\033"

\* color_handler.py, rgb_to_ansi: f"\033[38;2;{r};{g};{b}m"
rgb_to_ansi(r, g, b) ==
    <<ESC, "[", "3", "8", ";", "2", ";">> \o Str(r) \o <<";">> \o Str(g) \o <<";">>
        \o Str(b) \o <<"m">>

\* color_handler.py, reset_color
reset_color == <<ESC, "[", "0", "m">>

\* sep.join(parts)
RECURSIVE Join(_, _)
Join(sep, parts) ==
    IF Len(parts) = 0 THEN <<>>
    ELSE IF Len(parts) = 1 THEN parts[1]
    ELSE parts[1] \o sep \o Join(sep, Tail(parts))

\* "".join(row)
JoinRow(row) == Join(<<>>, [x \in 1..Len(row) |-> <<row[x]>>])

ToPlainTextTrailingNewline(self) ==
    Join(<<"\n">>, [y \in 1..Len(self.char_grid) |-> JoinRow(self.char_grid[y])])
        \o <<"\n">>

\* AsciiArt.to_plain_text
to_plain_text(self) ==
    Join(<<"\n">>, [y \in 1..Len(self.char_grid) |-> JoinRow(self.char_grid[y])])

\* apply_colors, the body of the loop over x: what is added to line for the
\* glyph in column x of row y (both from 1)
ColoredCell(char, y, x, color_array) ==
    IF y <= Len(color_array) /\ x <= Len(color_array[1])
    THEN rgb_to_ansi(color_array[y][x][1], color_array[y][x][2], color_array[y][x][3])
             \o <<char>> \o reset_color
    ELSE <<char>>

ApplyColorsPlain(self, char_grid, color_array) ==
    Join(<<"\n">>, [y \in 1..Len(char_grid) |-> JoinRow(char_grid[y])])

\* ColorHandler.apply_colors
apply_colors(self, char_grid, color_array) ==
    IF self.mode = BLACK_WHITE
    THEN Join(<<"\n">>, [y \in 1..Len(char_grid) |-> JoinRow(char_grid[y])])
    ELSE Join(<<"\n">>,
              [y \in 1..Len(char_grid) |->
                  Join(<<>>, [x \in 1..Len(char_grid[y]) |->
                                 ColoredCell(char_grid[y][x], y, x, color_array)])])

\* AsciiArt.to_colored_text
to_colored_text(self) ==
    IF self.color_handler = <<>> THEN to_plain_text(self)
    ELSE apply_colors(self.color_handler[1], self.char_grid, self.color_grid)

\* AsciiArt.__str__
__str__(self) == to_plain_text(self)

(***************************************************************************)
(* The artifacts the text specification draws from: glyph grids of at most *)
(* MaxTextRows rows of at most MaxTextCols glyphs, one grid with rows of   *)
(* different lengths, colour grids of every shape up to the same size, and *)
(* every colour mode.                                                      *)
(***************************************************************************)
MaxTextRows == 2
MaxTextCols == 3

\* rows of a, b, c, ... in reading order
GlyphGrids ==
    {[y \in 1..h |-> [x \in 1..w |-> Alphabet[(((y - 1) * w + x - 1) % Len(Alphabet)) + 1]]] :
        h \in 0..MaxTextRows, w \in 0..MaxTextCols}
        \cup {<<<<"a", "b">>, <<"c">>>>}

ColorGrids ==
    {[y \in 1..h |-> [x \in 1..w |-> <<((y - 1) * 100) % 256, x * 9, 255>>]] :
        h \in 0..MaxTextRows, w \in 0..MaxTextCols}

TextHandlers ==
    {<<>>} \cup {<<ColorHandler(mode, <<>>, <<>>, <<>>, "horizontal")>> :
                    mode \in {BLACK_WHITE, SOURCE, RAINBOW, GRADIENT, SOLID}}

TextInit ==
    /\ \E g \in GlyphGrids, c \in ColorGrids, h \in TextHandlers :
          art = [art |-> AsciiArt(g, c, IF Len(g) = 0 THEN 0 ELSE Len(g[1]), Len(g), h),
                 plain |-> <<>>, colored |-> <<>>, str |-> <<>>]
    /\ ramp = <<>>
    /\ reso = <<>>
    /\ conv = <<>>
    /\ grad = <<>>
    /\ given = <<>>

\* art.to_plain_text()
ToPlainText ==
    /\ art.plain = <<>>
    /\ art' = [art EXCEPT !.plain = <<to_plain_text(art.art)>>]
    /\ UNCHANGED <<ramp, reso, conv, grad, given>>

\* art.to_colored_text()
ToColoredText ==
    /\ art.colored = <<>>
    /\ art' = [art EXCEPT !.colored = <<to_colored_text(art.art)>>]
    /\ UNCHANGED <<ramp, reso, conv, grad, given>>

\* str(art)
StrOfArt ==
    /\ art.str = <<>>
    /\ art' = [art EXCEPT !.str = <<__str__(art.art)>>]
    /\ UNCHANGED <<ramp, reso, conv, grad, given>>

TextNext == ToPlainText \/ ToColoredText \/ StrOfArt

SpecText == TextInit /\ [][TextNext]_vars

(***************************************************************************)
(* core/renderer.py: the border functions, and the border and padding pass *)
(* of cli.py.                                                              *)
(***************************************************************************)
AddBorderPadsWithBorderChar(char_grid, border_char, padding) ==
    [y \in 1..(Len(char_grid) + 2 * (padding + 1)) |->
        [x \in 1..(Len(char_grid[1]) + 2 * (padding + 1)) |->
            IF /\ y - (padding + 1) \in 1..Len(char_grid)
               /\ x - (padding + 1) \in 1..Len(char_grid[1])
            THEN char_grid[y - (padding + 1)][x - (padding + 1)]
            ELSE border_char]]

\* add_border for a non-empty grid and padding >= 0
add_border(char_grid, border_char, padding) ==
    LET width      == Len(char_grid[1])
        new_width  == width + 2 * (padding + 1)
        full       == [x \in 1..new_width |-> border_char]
        blank      == [x \in 1..new_width |->
                          IF x = 1 \/ x = new_width THEN border_char ELSE " "]
        spaces     == [x \in 1..padding |-> " "]
        pad_rows   == [y \in 1..padding |-> blank]
        content    == [y \in 1..Len(char_grid) |->
                          <<border_char>> \o spaces \o char_grid[y] \o spaces
                              \o <<border_char>>]
    IN  <<full>> \o pad_rows \o content \o pad_rows \o <<full>>

\* add_border_to_colors for padding >= 0
add_border_to_colors(color_grid, border_color, padding) ==
    LET height     == Len(color_grid)
        width      == Len(color_grid[1])
        new_width  == width + 2 * (padding + 1)
        new_height == height + 2 * (padding + 1)
        offset     == padding + 1
    IN  [y \in 1..new_height |-> [x \in 1..new_width |->
            IF /\ offset < y
               /\ y <= offset + height
               /\ offset < x
               /\ x <= offset + width
            THEN color_grid[y - offset][x - offset]
            ELSE IF y = 1 \/ y = new_height \/ x = 1 \/ x = new_width
            THEN border_color
            ELSE <<0, 0, 0>>]]

BorderPassOnlyForStyle(a, border, border_char, padding) ==
    IF border # "none"
    THEN [a EXCEPT !.char_grid  = add_border(a.char_grid, border_char, padding),
                   !.color_grid = add_border_to_colors(a.color_grid,
                                      IF a.color_handler = <<>> THEN <<128, 128, 128>>
                                      ELSE <<255, 255, 255>>, padding),
                   !.height     = Len(a.char_grid) + 2 * (padding + 1),
                   !.width      = Len(a.char_grid[1]) + 2 * (padding + 1)]
    ELSE a

\* main, lines 328-338, on the AsciiArt a; the colour mode is black-white
\* exactly when main built no handler
border_pass(a, border, border_char, padding) ==
    IF border # "none" \/ padding > 0
    THEN LET mode         == IF a.color_handler = <<>> THEN BLACK_WHITE
                             ELSE a.color_handler[1].mode
             border_color == IF mode # BLACK_WHITE THEN <<255, 255, 255>>
                             ELSE <<128, 128, 128>>
             char_grid    == add_border(a.char_grid, border_char, padding)
         IN  [a EXCEPT !.char_grid  = char_grid,
                       !.color_grid = add_border_to_colors(a.color_grid, border_color,
                                                           padding),
                       !.height     = Len(char_grid),
                       !.width      = IF char_grid # <<>> THEN Len(char_grid[1]) ELSE 0]
    ELSE a

(***************************************************************************)
(* The conversions the conversion specification draws from: converters     *)
(* built from tuples and WIDTHxHEIGHT strings of at most MaxCols by        *)
(* MaxRows and from the 10 x 10 sample, each colour mode, and an image     *)
(* file that is missing, corrupt or an image.                              *)
(***************************************************************************)
MaxCols == 3
MaxRows == 4
MaxPadding == 2

ResolutionArgs ==
    {<<"tuple", <<w, h>>>> : w \in (0 - 1)..MaxCols, h \in (0 - 1)..MaxRows}
        \cup {<<"str", Str(w) \o <<"x">> \o Str(h)>> : w \in 0..MaxCols, h \in 0..MaxRows}

HandlerArgs ==
    {<<>>,
     <<ColorHandler(BLACK_WHITE, <<>>, <<>>, <<>>, "horizontal")>>,
     <<ColorHandler(SOURCE, <<>>, <<>>, <<>>, "horizontal")>>,
     <<ColorHandler(RAINBOW, <<>>, <<>>, <<>>, "horizontal")>>,
     <<ColorHandler(RAINBOW, <<>>, <<>>, <<>>, "diagonal")>>,
     <<ColorHandler(GRADIENT, <<>>, <<>>, <<>>, "vertical")>>,
     <<ColorHandler(GRADIENT, <<>>, <<>>,
                    <<<<255, 0, 0>>, <<0, 255, 0>>, <<0, 0, 255>>>>, "horizontal")>>,
     <<ColorHandler(SOLID, <<>>, <<<<0, 255, 0>>>>, <<>>, "horizontal")>>,
     <<ColorHandler(SOLID, <<>>, <<>>, <<>>, "horizontal")>>}

\* <<resolution, invert, <<brightness, contrast>>, aspect_correct, color_handler>>:
\* every resolution with every colour mode, every resolution with brightness
\* and contrast set, and the 10 x 10 sample
ConverterArgs ==
    {<<r, inv, <<0, 0>>, a, h>> :
        r \in ResolutionArgs, inv \in BOOLEAN, a \in BOOLEAN, h \in HandlerArgs}
        \cup {<<r, FALSE, <<50, 0 - 30>>, a, <<>>>> : r \in ResolutionArgs, a \in BOOLEAN}
        \cup {<<<<"tuple", <<10, 10>>>>, FALSE, <<0, 0>>, a, <<>>>> : a \in BOOLEAN}

ImagePaths ==
    {[kind |-> "missing", seed |-> 0], [kind |-> "corrupt", seed |-> 0],
     [kind |-> "image", seed |-> 1]}

\* of the paddings 0..10 that --padding admits, those the pass is run with
Paddings == 0..MaxPadding \cup {10}

ConvertInit ==
    /\ \E c \in ConverterArgs :
          \E made \in {AsciiConverter(c[1], <<SIMPLE_SET>>, c[3][1], c[3][2], c[2], c[4],
                                      c[5])} :
              /\ made.raised = ""
              /\ conv = made.self[1]
              /\ given = [brightness |-> c[3][1], contrast |-> c[3][2], raised |-> ""]
    /\ art = <<>>
    /\ ramp = <<>>
    /\ reso = <<>>
    /\ grad = <<>>

\* art = converter.convert(image), main line 326; passed tells whether main has
\* gone past its border and padding pass
Convert ==
    /\ art = <<>>
    /\ \E image_path \in ImagePaths :
          \E c \in {convert(conv, image_path)} :
              art' = [raised |-> c.raised, size |-> c.size, grayscale |-> c.grayscale,
                      rgb |-> c.rgb, art |-> c.art, passed |-> FALSE]
    /\ UNCHANGED <<ramp, reso, conv, grad, given>>

\* main, lines 328-338
BorderPass ==
    /\ art # <<>>
    /\ art.art # <<>>
    /\ ~art.passed
    /\ \E border \in {"none", "simple"}, padding \in Paddings :
          art' = [art EXCEPT !.art = <<border_pass(art.art[1], border, "#", padding)>>,
                             !.passed = TRUE]
    /\ UNCHANGED <<ramp, reso, conv, grad, given>>

ConvertNext == Convert \/ BorderPass

SpecConvert == ConvertInit /\ [][ConvertNext]_vars

(***************************************************************************)
(* The brightness and contrast values the adjustment specification draws   *)
(* from: the integers within MaxOver of -100, of 0 and of 100.             *)
(***************************************************************************)
MaxOver == 2

AdjustValues ==
    ((0 - 100) - MaxOver)..((0 - 100) + MaxOver)
        \cup (0 - MaxOver)..MaxOver
        \cup (100 - MaxOver)..(100 + MaxOver)

\* AsciiConverter(brightness=b, contrast=c), the other arguments at their defaults
AdjustInit ==
    /\ \E b \in AdjustValues, c \in AdjustValues :
          /\ conv = AsciiConverter(<<"tuple", <<1920, 1080>>>>, <<>>, b, c, FALSE, TRUE,
                                   <<>>).self[1]
          /\ given = [brightness |-> b, contrast |-> c, raised |-> ""]
    /\ art = <<>>
    /\ ramp = <<>>
    /\ reso = <<>>
    /\ grad = <<>>

\* AsciiConverter.set_brightness
SetBrightness ==
    /\ \E brightness \in AdjustValues :
          /\ conv' = [conv EXCEPT !.processor.brightness = Clamp100(brightness)]
          /\ given' = [given EXCEPT !.brightness = brightness, !.raised = ""]
    /\ UNCHANGED <<ramp, reso, art, grad>>

\* AsciiConverter.set_contrast
SetContrast ==
    /\ \E contrast \in AdjustValues :
          /\ conv' = [conv EXCEPT !.processor.contrast = Clamp100(contrast)]
          /\ given' = [given EXCEPT !.contrast = contrast, !.raised = ""]
    /\ UNCHANGED <<ramp, reso, art, grad>>

AdjustNext == SetBrightness \/ SetContrast

SpecAdjust == AdjustInit /\ [][AdjustNext]_vars

(***************************************************************************)
(* The border functions called on their own: on glyph grids and colour     *)
(* arrays of every shape up to MaxTextRows x MaxTextCols, the empty ones   *)
(* included, with a padding from -1 to MaxPadding.  A colour array is its  *)
(* shape and its rows, since an array without rows still has a width.      *)
(***************************************************************************)
ColorArrays ==
    {[shape |-> <<h, w>>,
      cells |-> [y \in 1..h |-> [x \in 1..w |-> <<((y - 1) * 100) % 256, x * 9, 255>>]]] :
        h \in 0..MaxTextRows, w \in 0..MaxTextCols}

BorderChars == {"#", " "}

BorderColors == {<<255, 255, 255>>, <<128, 128, 128>>}

BorderPaddings == (0 - 1)..MaxPadding

\* add_border, the call: the error it raises or the grid it returns
AddBorder(char_grid, border_char, padding) ==
    IF Len(char_grid) = 0 \/ Len(char_grid[1]) = 0
    THEN [raised |-> "ValueError", grid |-> <<>>]
    ELSE IF padding < 0 THEN [raised |-> "ValueError", grid |-> <<>>]
    ELSE [raised |-> "", grid |-> add_border(char_grid, border_char, padding)]

\* add_border_to_colors, the call: the error it raises or the array it
\* returns; around an array without rows the new array is the ring and zeros
AddBorderToColors(color_grid, border_color, padding) ==
    IF padding < 0 THEN [raised |-> "ValueError", grid |-> <<>>]
    ELSE IF color_grid.shape[1] = 0
    THEN [raised |-> "",
          grid |-> [y \in 1..(2 * (padding + 1)) |->
                       [x \in 1..(color_grid.shape[2] + 2 * (padding + 1)) |->
                           IF \/ y = 1
                              \/ y = 2 * (padding + 1)
                              \/ x = 1
                              \/ x = color_grid.shape[2] + 2 * (padding + 1)
                           THEN border_color
                           ELSE <<0, 0, 0>>]]]
    ELSE [raised |-> "",
          grid |-> add_border_to_colors(color_grid.cells, border_color, padding)]

FrameInit ==
    /\ \E g \in GlyphGrids, c \in ColorArrays :
          art = [char_grid |-> g, color_grid |-> c, chars |-> <<>>, colors |-> <<>>]
    /\ ramp = <<>>
    /\ reso = <<>>
    /\ conv = <<>>
    /\ grad = <<>>
    /\ given = <<>>

\* add_border(char_grid, border_char, padding)
CallAddBorder ==
    /\ art.chars = <<>>
    /\ \E border_char \in BorderChars, padding \in BorderPaddings :
          \E r \in {AddBorder(art.char_grid, border_char, padding)} :
              art' = [art EXCEPT !.chars = <<[border_char |-> border_char,
                                              padding |-> padding,
                                              raised |-> r.raised,
                                              grid |-> r.grid]>>]
    /\ UNCHANGED <<ramp, reso, conv, grad, given>>

\* add_border_to_colors(color_grid, border_color, padding)
CallAddBorderToColors ==
    /\ art.colors = <<>>
    /\ \E border_color \in BorderColors, padding \in BorderPaddings :
          \E r \in {AddBorderToColors(art.color_grid, border_color, padding)} :
              art' = [art EXCEPT !.colors = <<[border_color |-> border_color,
                                               padding |-> padding,
                                               raised |-> r.raised,
                                               grid |-> r.grid]>>]
    /\ UNCHANGED <<ramp, reso, conv, grad, given>>

FrameNext == CallAddBorder \/ CallAddBorderToColors

SpecFrame == FrameInit /\ [][FrameNext]_vars

(***************************************************************************)
(* cli.py: main.  The options are a record o; an option that was not given *)
(* is <<>>, one that was given is <<value>>.  A raised exception is        *)
(* [type, message]; the stream err is the sequence of the messages echoed  *)
(* with err=True.                                                          *)
(***************************************************************************)
\* the character set of the block preset: the blank, the three shades and
\* the full block, which a TLA+ string cannot hold
BLOCK_SET == <<" ", "light shade", "medium shade", "dark shade", "full block">>

\* CharacterSet.from_preset: [raised, self]
from_preset(preset) ==
    CASE Lower(preset) = <<"s", "i", "m", "p", "l", "e">> ->
             [raised |-> "", self |-> <<CharacterSet(SIMPLE_SET)>>]
      [] Lower(preset) = <<"e", "x", "t", "e", "n", "d", "e", "d">> ->
             [raised |-> "", self |-> <<CharacterSet(EXTENDED_SET)>>]
      [] Lower(preset) = <<"b", "l", "o", "c", "k">> ->
             [raised |-> "", self |-> <<CharacterSet(BLOCK_SET)>>]
      [] Lower(preset) = <<"m", "i", "n", "i", "m", "a", "l">> ->
             [raised |-> "", self |-> <<CharacterSet(MINIMAL_SET)>>]
      [] OTHER -> [raised |-> "ValueError: Invalid preset", self |-> <<>>]

\* PIL: Image.open(image) of main line 236 and the width and height it reads
SourceSize(image) ==
    IF image.kind = "image" THEN Returned(<<3 + image.seed, 2 + image.seed>>)
    ELSE [raised |-> "UnidentifiedImageError", value |-> <<>>]

\* the literals 0.6, 0.35 and 0.7 of main
CharWidthFactor == FDiv(FFromInt(6), FFromInt(10))
CharHeightFactor == FDiv(FFromInt(35), FFromInt(100))
CharHeightFactorUncorrected == FDiv(FFromInt(7), FFromInt(10))

GridIgnoresAspectFlag(pixels, font_size, no_aspect_correct) ==
    <<FTrunc(FDiv(FFromInt(pixels[1]), FMul(FFromInt(font_size), CharWidthFactor))),
      FTrunc(FDiv(FFromInt(pixels[2]), FMul(FFromInt(font_size), CharHeightFactor)))>>

\* main, lines 219-224: the character grid for an output of pixels
GridFromPixels(pixels, font_size, no_aspect_correct) ==
    <<FTrunc(FDiv(FFromInt(pixels[1]), FMul(FFromInt(font_size), CharWidthFactor))),
      FTrunc(FDiv(FFromInt(pixels[2]),
                  IF ~no_aspect_correct THEN FMul(FFromInt(font_size), CharHeightFactor)
                  ELSE FMul(FFromInt(font_size), CharHeightFactorUncorrected)))>>

\* main, lines 244-246, for a scale that was given
Scaled(size, scale) ==
    <<FTrunc(FMul(FFromInt(size[1]), scale)), FTrunc(FMul(FFromInt(size[2]), scale))>>

\* main, lines 209-247, on the sizes already parsed or read: [raised, size,
\* err], size being <<>> or <<(width, height)>>
ResolvedFrom(o, pixels, given_size) ==
    IF o.output_resolution # <<>>
    THEN IF pixels.raised # "" THEN [raised |-> pixels.raised, size |-> <<>>, err |-> <<>>]
         ELSE [raised |-> "",
               size   |-> <<GridFromPixels(pixels.value, o.font_size,
                                           o.no_aspect_correct)>>,
               err    |-> <<"Creating wallpaper">>]
    ELSE IF given_size.raised # ""
    THEN [raised |-> given_size.raised, size |-> <<>>, err |-> <<>>]
    ELSE IF o.scale # <<>>
    THEN [raised |-> "", size |-> <<Scaled(given_size.value, o.scale[1])>>,
          err |-> <<"Scaling">>]
    ELSE [raised |-> "", size |-> <<given_size.value>>, err |-> <<>>]

\* main, lines 209-247
ResolveGrid(o) ==
    ResolvedFrom(o,
                 IF o.output_resolution # <<>> THEN parse_resolution(o.output_resolution[1])
                 ELSE Returned(<<>>),
                 IF o.output_resolution # <<>> THEN Returned(<<>>)
                 ELSE IF o.resolution = <<>> THEN SourceSize(o.image)
                 ELSE parse_resolution(o.resolution[1]))

\* main, line 250: f"{width}x{height}"
ResolutionString(size) == Str(size[1]) \o <<"x">> \o Str(size[2])

\* main, lines 253-268: [exit, raised, self, err]; exit is <<1>> for sys.exit(1)
MakeCharacterSet(o) ==
    IF o.custom_chars # <<>>
    THEN IF Len(o.custom_chars[1]) < 2
         THEN [exit |-> <<1>>, raised |-> "", self |-> <<>>,
               err |-> <<"Error: Custom character set must have at least 2 characters">>]
         ELSE [exit |-> <<>>, raised |-> "", self |-> <<CharacterSet(o.custom_chars[1])>>,
               err |-> <<"Using custom characters">>]
    ELSE [exit |-> <<>>, raised |-> from_preset(o.charset).raised,
          self |-> from_preset(o.charset).self, err |-> <<>>]

\* s.split(c)
RECURSIVE SplitAll(_, _)
SplitAll(s, c) ==
    IF ~Contains(s, c) THEN <<s>>
    ELSE <<SplitFirst(s, c)>> \o SplitAll(AfterFirst(s, c), c)

\* main, lines 279-281: [parse_color(c.strip()) for c in gradient_colors.split(",")]
ParsedStops(gradient_colors) ==
    [k \in 1..Len(SplitAll(gradient_colors, ",")) |->
        parse_color(RStrip(LStrip(SplitAll(gradient_colors, ",")[k])))]

\* main, lines 305-311, the colours being parsed: [exit, handler, err]
HandlerFrom(o, stops, text_color_rgb, bg_color_rgb) ==
    [exit    |-> <<>>,
     handler |-> <<ColorHandler(o.color_mode, bg_color_rgb, text_color_rgb, stops,
                                o.gradient_direction)>>,
     err     |-> <<>>]

\* main, lines 297-311, on what parse_color returned or raised for bg_color
WithBackground(o, stops, text_color_rgb, bg) ==
    IF bg.raised # ""
    THEN [exit |-> <<1>>, handler |-> <<>>, err |-> <<"Error parsing background color">>]
    ELSE HandlerFrom(o, stops, text_color_rgb, bg.rgb)

\* main, lines 290-311, on what parse_color returned or raised for text_color
WithText(o, stops, text) ==
    IF text.raised # ""
    THEN [exit |-> <<1>>, handler |-> <<>>, err |-> <<"Error parsing text color">>]
    ELSE WithBackground(o, stops, text.rgb,
                        IF o.bg_color # <<>> /\ o.bg_color[1] # <<>>
                        THEN parse_color(o.bg_color[1])
                        ELSE [raised |-> "", rgb |-> <<>>])

\* main, lines 277-311, on the list the gradient stops parsed to
WithStops(o, parsed) ==
    IF \E k \in 1..Len(parsed) : parsed[k].raised # ""
    THEN [exit |-> <<1>>, handler |-> <<>>, err |-> <<"Error parsing gradient colors">>]
    ELSE WithText(o, [k \in 1..Len(parsed) |-> parsed[k].rgb[1]],
                  IF o.text_color # <<>> /\ o.text_color[1] # <<>>
                  THEN parse_color(o.text_color[1])
                  ELSE [raised |-> "", rgb |-> <<>>])

\* main, lines 271-311: [exit, handler, err], handler being <<>> for None
MakeColorHandler(o) ==
    IF o.color_mode = BLACK_WHITE THEN [exit |-> <<>>, handler |-> <<>>, err |-> <<>>]
    ELSE WithStops(o, IF o.gradient_colors # <<>> /\ o.gradient_colors[1] # <<>>
                      THEN ParsedStops(o.gradient_colors[1])
                      ELSE <<>>)

\* pathlib: Path(name).suffix for a file name without directories
PathSuffix(name) ==
    IF \E i \in 2..(Len(name) - 1) : name[i] = "."
    THEN SubSeq(name, CHOOSE i \in 2..(Len(name) - 1) :
                          /\ name[i] = "."
                          /\ \A j \in (i + 1)..Len(name) : name[j] # ".",
                Len(name))
    ELSE <<>>

\* main, lines 341-346 and 370-373: the text echoed or written
RenderedText(o, a) ==
    IF o.color_mode # BLACK_WHITE
    THEN [colored |-> TRUE, text |-> to_colored_text(a)]
    ELSE [colored |-> FALSE, text |-> to_plain_text(a)]

\* main, lines 348-375: [raised, file, err]; AsciiArt has neither save_image
\* nor save_json, so the attribute lookup raises
SaveToFile(o, a) ==
    LET suffix == Lower(PathSuffix(o.output[1]))
    IN  IF suffix \in {<<".", "p", "n", "g">>, <<".", "j", "p", "g">>,
                       <<".", "j", "p", "e", "g">>}
        THEN IF o.bg_color # <<>> /\ parse_color(o.bg_color[1]).raised # ""
             THEN [raised |-> "ValueError: Invalid color", file |-> <<>>,
                   err |-> <<"Saving to">>]
             ELSE [raised |-> "AttributeError: save_image", file |-> <<>>,
                   err |-> <<"Saving to">>]
        ELSE IF suffix = <<".", "j", "s", "o", "n">>
        THEN [raised |-> "AttributeError: save_json", file |-> <<>>,
              err |-> <<"Saving to">>]
        ELSE [raised |-> "",
              file |-> <<[format |-> "text", content |-> RenderedText(o, a)]>>,
              err |-> <<"Saving to", "Saved to">>]

\* main, lines 382-390: the message the except clause echoes
ExceptMessage(raised) ==
    IF raised = "FileNotFoundError" THEN "Error: not found"
    ELSE IF raised \in {"ValueError: Invalid resolution format",
                        "ValueError: Failed to load image",
                        "ValueError: height and width must be > 0",
                        "ValueError: Invalid preset",
                        "ValueError: Invalid color"}
    THEN "Error: invalid value"
    ELSE "Unexpected error"

(***************************************************************************)
(* The runs of the command.  given holds the options, reso the locals of   *)
(* main and the statement it has reached, conv the converter, art the      *)
(* artifact as convert returned it and as it is now, and grad the streams: *)
(* what was echoed to standard output, the messages on the error stream,   *)
(* the output file, the exception being handled and the exit code.  The    *)
(* option sets below vary the colour mode, the output file, the border and *)
(* the padding of a valid command line, replace one value at a time by an  *)
(* invalid one, and combine the ways a resolution can be asked for.        *)
(***************************************************************************)
BaseOptions ==
    [image              |-> [kind |-> "image", seed |-> 1],
     resolution         |-> <<<<"3", "x", "4">>>>,
     output_resolution  |-> <<>>,
     scale              |-> <<>>,
     charset            |-> <<"s", "i", "m", "p", "l", "e">>,
     custom_chars       |-> <<>>,
     brightness         |-> 0,
     contrast           |-> 0,
     invert             |-> FALSE,
     no_aspect_correct  |-> FALSE,
     color_mode         |-> BLACK_WHITE,
     gradient_colors    |-> <<>>,
     gradient_direction |-> "horizontal",
     text_color         |-> <<>>,
     bg_color           |-> <<>>,
     border             |-> "none",
     border_char        |-> "#",
     padding            |-> 0,
     output             |-> <<>>,
     font_size          |-> 10,
     terminal           |-> TRUE]

ColorModes == {BLACK_WHITE, SOURCE, RAINBOW, GRADIENT, SOLID}

OutputPaths ==
    {<<>>, <<<<"o", ".", "p", "n", "g">>>>, <<<<"o", ".", "J", "P", "G">>>>,
     <<<<"o", ".", "j", "p", "e", "g">>>>, <<<<"o", ".", "j", "s", "o", "n">>>>,
     <<<<"o", ".", "t", "x", "t">>>>, <<<<"o">>>>, <<<<"o", ".", "p", "n", "g", ".", "a">>>>}

ValidOptions ==
    {[BaseOptions EXCEPT !.color_mode = m, !.output = out, !.border = b, !.padding = p] :
        m \in ColorModes, out \in OutputPaths, b \in {"none", "simple"},
        p \in 0..MaxPadding}
        \cup {[BaseOptions EXCEPT !.color_mode = m, !.output = out,
                                  !.gradient_colors = <<<<"#", "F", "F", "0", "0", "0", "0",
                                                          ",", " ", "b", "l", "u", "e">>>>,
                                  !.text_color = <<<<"c", "y", "a", "n">>>>,
                                  !.bg_color = <<<<"b", "l", "a", "c", "k">>>>,
                                  !.custom_chars = <<<<" ", ".", "o", "@">>>>,
                                  !.invert = TRUE] :
                 m \in ColorModes, out \in OutputPaths}

\* o with one value replaced by an invalid one
InvalidOptions(o) ==
    {[o EXCEPT !.resolution = <<<<"3", "x">>>>],
     [o EXCEPT !.output_resolution = <<<<"b", "a", "d">>>>],
     [o EXCEPT !.resolution = <<<<"3", "x">>>>,
               !.output_resolution = <<<<"1", "2", "x", "9">>>>],
     [o EXCEPT !.custom_chars = <<<<"a">>>>],
     [o EXCEPT !.custom_chars = <<<<>>>>],
     [o EXCEPT !.gradient_colors = <<<<"#", "F", "F", "0", "0", "0", "0", ",", "n", "o">>>>],
     [o EXCEPT !.text_color = <<<<"n", "o", "t", "a", "c", "o", "l", "o", "r">>>>],
     [o EXCEPT !.bg_color = <<<<"#", "F", "F">>>>]}

InvalidRuns ==
    UNION {InvalidOptions([BaseOptions EXCEPT !.color_mode = m, !.output = out]) :
              m \in ColorModes,
              out \in {<<>>, <<<<"o", ".", "p", "n", "g">>>>,
                       <<<<"o", ".", "j", "s", "o", "n">>>>, <<<<"o", ".", "t", "x", "t">>>>}}

ResolutionRuns ==
    {[BaseOptions EXCEPT !.image = i, !.resolution = r, !.output_resolution = p,
                         !.scale = sc, !.no_aspect_correct = n] :
        i \in {[kind |-> "image", seed |-> 1], [kind |-> "corrupt", seed |-> 0]},
        r \in {<<>>, <<<<"3", "x", "4">>>>, <<<<"2", "X", "1">>>>},
        p \in {<<>>, <<<<"1", "2", "x", "9">>>>, <<<<"3", "0", "x", "2", "0">>>>},
        sc \in {<<>>, <<FDiv(F1, FFromInt(2))>>, <<FFromInt(2)>>},
        n \in BOOLEAN}

MainOptions == ValidOptions \cup InvalidRuns \cup ResolutionRuns

MainInit ==
    /\ given \in MainOptions
    /\ reso = [pc |-> "resolve", resolution |-> <<>>, char_set |-> <<>>, handler |-> <<>>]
    /\ conv = <<>>
    /\ art = [returned |-> <<>>, art |-> <<>>, passed |-> FALSE]
    /\ grad = [out |-> <<>>, err |-> <<>>, file |-> <<>>, raised |-> "", exit |-> <<>>]
    /\ ramp = <<>>

\* main, lines 209-250
Resolve ==
    /\ reso.pc = "resolve"
    /\ \E r \in {ResolveGrid(given)} :
          IF r.raised # ""
          THEN /\ reso' = [reso EXCEPT !.pc = "except"]
               /\ grad' = [grad EXCEPT !.raised = r.raised]
          ELSE /\ reso' = [reso EXCEPT !.pc = "charset",
                                       !.resolution = <<ResolutionString(r.size[1])>>]
               /\ grad' = [grad EXCEPT !.err = @ \o r.err]
    /\ UNCHANGED <<ramp, conv, art, given>>

\* main, lines 253-268
CreateCharacterSet ==
    /\ reso.pc = "charset"
    /\ \E c \in {MakeCharacterSet(given)} :
          /\ reso' = [reso EXCEPT !.pc = IF c.exit # <<>> THEN "exited"
                                         ELSE IF c.raised # "" THEN "except"
                                         ELSE "colors",
                                  !.char_set = c.self]
          /\ grad' = [grad EXCEPT !.err = @ \o c.err, !.exit = c.exit,
                                  !.raised = c.raised]
    /\ UNCHANGED <<ramp, conv, art, given>>

\* main, lines 271-311
CreateColorHandler ==
    /\ reso.pc = "colors"
    /\ \E h \in {MakeColorHandler(given)} :
          /\ reso' = [reso EXCEPT !.pc = IF h.exit # <<>> THEN "exited" ELSE "converter",
                                  !.handler = h.handler]
          /\ grad' = [grad EXCEPT !.err = @ \o h.err, !.exit = h.exit]
    /\ UNCHANGED <<ramp, conv, art, given>>

\* main, lines 314-322
CreateConverter ==
    /\ reso.pc = "converter"
    /\ \E c \in {AsciiConverter(<<"str", reso.resolution[1]>>, <<reso.char_set[1].charset>>,
                                given.brightness, given.contrast, given.invert,
                                ~given.no_aspect_correct, reso.handler)} :
          IF c.raised # ""
          THEN /\ reso' = [reso EXCEPT !.pc = "except"]
               /\ grad' = [grad EXCEPT !.raised = c.raised]
               /\ conv' = conv
          ELSE /\ reso' = [reso EXCEPT !.pc = "convert"]
               /\ conv' = c.self[1]
               /\ grad' = grad
    /\ UNCHANGED <<ramp, art, given>>

\* main, lines 325-326
ConvertImage ==
    /\ reso.pc = "convert"
    /\ \E c \in {convert(conv, given.image)} :
          IF c.raised # ""
          THEN /\ reso' = [reso EXCEPT !.pc = "except"]
               /\ grad' = [grad EXCEPT !.err = @ \o <<"Converting">>, !.raised = c.raised]
               /\ art' = art
          ELSE /\ reso' = [reso EXCEPT !.pc = "border"]
               /\ grad' = [grad EXCEPT !.err = @ \o <<"Converting">>]
               /\ art' = [art EXCEPT !.returned = c.art, !.art = c.art]
    /\ UNCHANGED <<ramp, conv, given>>

\* main, lines 329-338
BorderAndPadding ==
    /\ reso.pc = "border"
    /\ reso' = [reso EXCEPT !.pc = "terminal"]
    /\ art' = [art EXCEPT !.art = <<border_pass(art.art[1], given.border,
                                                given.border_char, given.padding)>>,
                          !.passed = given.border # "none" \/ given.padding > 0]
    /\ UNCHANGED <<ramp, conv, grad, given>>

\* main, lines 341-346
TerminalOutput ==
    /\ reso.pc = "terminal"
    /\ reso' = [reso EXCEPT !.pc = "file"]
    /\ grad' = [grad EXCEPT !.out = IF given.terminal
                                    THEN @ \o <<RenderedText(given, art.art[1])>>
                                    ELSE @]
    /\ UNCHANGED <<ramp, conv, art, given>>

\* main, lines 348-380, and the return of main, after which click exits with 0
FileOutput ==
    /\ reso.pc = "file"
    /\ IF given.output = <<>>
       THEN /\ reso' = [reso EXCEPT !.pc = "exited"]
            /\ grad' = IF ~given.terminal
                       THEN [grad EXCEPT !.err = @ \o <<"No output specified">>,
                                         !.exit = <<1>>]
                       ELSE [grad EXCEPT !.exit = <<0>>]
       ELSE \E f \in {SaveToFile(given, art.art[1])} :
               IF f.raised # ""
               THEN /\ reso' = [reso EXCEPT !.pc = "except"]
                    /\ grad' = [grad EXCEPT !.err = @ \o f.err, !.raised = f.raised]
               ELSE /\ reso' = [reso EXCEPT !.pc = "exited"]
                    /\ grad' = [grad EXCEPT !.err = @ \o f.err, !.file = f.file,
                                            !.exit = <<0>>]
    /\ UNCHANGED <<ramp, conv, art, given>>

\* main, lines 382-390
HandleException ==
    /\ reso.pc = "except"
    /\ reso' = [reso EXCEPT !.pc = "exited"]
    /\ grad' = [grad EXCEPT !.err = @ \o <<ExceptMessage(grad.raised)>>, !.exit = <<1>>]
    /\ UNCHANGED <<ramp, conv, art, given>>

MainNext ==
    \/ Resolve
    \/ CreateCharacterSet
    \/ CreateColorHandler
    \/ CreateConverter
    \/ ConvertImage
    \/ BorderAndPadding
    \/ TerminalOutput
    \/ FileOutput
    \/ HandleException

SpecMain == MainInit /\ [][MainNext]_vars


(***************************************************************************)
(* The command up to the construction of the converter, run with an output *)
(* resolution: every preset and the sizes w x (MaxPixels + 1 - w), every   *)
(* font size --font-size admits, with and without aspect correction, and   *)
(* with or without a resolution and a scale beside it.                     *)
(***************************************************************************)
MinFontSize == 4
MaxFontSize == 72
MaxPixels == 30

PixelStrings ==
    DOMAIN presets
        \cup {Str(w) \o <<"x">> \o Str(MaxPixels + 1 - w) : w \in 1..MaxPixels}

GridOptions ==
    {[BaseOptions EXCEPT !.output_resolution = <<p>>, !.font_size = f,
                         !.no_aspect_correct = n, !.resolution = rs[1], !.scale = rs[2]] :
        p \in PixelStrings, f \in MinFontSize..MaxFontSize, n \in BOOLEAN,
        rs \in {<<<<>>, <<>>>>,
                <<<<<<"7", "2", "0", "p">>>>, <<FDiv(F1, FFromInt(2))>>>>}}

GridInit ==
    /\ given \in GridOptions
    /\ reso = [pc |-> "resolve", resolution |-> <<>>, char_set |-> <<>>, handler |-> <<>>]
    /\ conv = <<>>
    /\ art = [returned |-> <<>>, art |-> <<>>, passed |-> FALSE]
    /\ grad = [out |-> <<>>, err |-> <<>>, file |-> <<>>, raised |-> "", exit |-> <<>>]
    /\ ramp = <<>>

GridNext ==
    \/ Resolve
    \/ CreateCharacterSet
    \/ CreateColorHandler
    \/ CreateConverter
    \/ HandleException

SpecGrid == GridInit /\ [][GridNext]_vars

(***************************************************************************)
(* ImageProcessor.apply_brightness and apply_contrast on image objects.    *)
(* given.heap holds the images that exist, an object being its index; conv *)
(* is the processor; art is the last call: the method, the object handed   *)
(* in, the object returned and the enhancers invoked, each with the object *)
(* it was built on and the factor handed to enhance.                       *)
(***************************************************************************)
MaxImages == 2

\* the ImageEnhance invocations of apply_brightness (name "Brightness", v being
\* self.brightness) and of apply_contrast (name "Contrast", v self.contrast)
EnhancerAlwaysInvoked(name, v, image) ==
    <<[enhancer |-> name, image |-> image, factor |-> EnhanceFactor(v)]>>

EnhancerCalls(name, v, image) ==
    IF v = 0 THEN <<>>
    ELSE <<[enhancer |-> name, image |-> image, factor |-> EnhanceFactor(v)]>>

\* the object an apply_ method returns: the one handed in, or the new image
\* enhance built (PIL: Image.blend allocates its result)
ReturnedObject(calls, image, heap) ==
    IF calls = <<>> THEN image ELSE Len(heap) + 1

\* the values ImageProcessor is constructed with
EnhanceValues == ((0 - 100) - MaxOver)..(100 + MaxOver)

EnhanceInit ==
    /\ \E b \in EnhanceValues, c \in EnhanceValues :
          /\ c \in {0, b, 0 - b}
          /\ conv = ImageProcessor(b, c, TRUE)
    /\ given = [heap |-> <<Resize([seed |-> 0], 1, 1).image[1]>>]
    /\ art = <<>>
    /\ ramp = <<>>
    /\ reso = <<>>
    /\ grad = <<>>

\* ImageProcessor.apply_brightness(image)
ApplyBrightness ==
    /\ \E image \in 1..Len(given.heap) :
          LET calls == EnhancerCalls("Brightness", conv.brightness, image)
          IN  /\ calls # <<>> => Len(given.heap) < MaxImages
              /\ art' = [op |-> "brightness", image |-> image, enhancer |-> calls,
                         returned |-> ReturnedObject(calls, image, given.heap)]
              /\ given' = [given EXCEPT !.heap =
                              IF calls = <<>> THEN @
                              ELSE Append(@, apply_brightness(conv, @[image]))]
    /\ UNCHANGED <<ramp, reso, conv, grad>>

\* ImageProcessor.apply_contrast(image)
ApplyContrast ==
    /\ \E image \in 1..Len(given.heap) :
          LET calls == EnhancerCalls("Contrast", conv.contrast, image)
          IN  /\ calls # <<>> => Len(given.heap) < MaxImages
              /\ art' = [op |-> "contrast", image |-> image, enhancer |-> calls,
                         returned |-> ReturnedObject(calls, image, given.heap)]
              /\ given' = [given EXCEPT !.heap =
                              IF calls = <<>> THEN @
                              ELSE Append(@, apply_contrast(conv, @[image]))]
    /\ UNCHANGED <<ramp, reso, conv, grad>>

EnhanceNext == ApplyBrightness \/ ApplyContrast

SpecEnhance == EnhanceInit /\ [][EnhanceNext]_vars

(***************************************************************************)
(* CharacterSet.invert on objects.  given.heap holds the CharacterSet      *)
(* objects that exist, an object being its index, and given.from the       *)
(* object each was inverted from (0 for the one constructed first); art is *)
(* the last call: the object invert was called on, the object returned and *)
(* the heap as it was before the call.                                     *)
(***************************************************************************)
MaxSets == 3

\* the strings of 1..n characters over the first two of Alphabet
RECURSIVE StringsUpTo(_)
StringsUpTo(n) ==
    IF n = 0 THEN {}
    ELSE IF n = 1 THEN {<<Alphabet[1]>>, <<Alphabet[2]>>}
    ELSE StringsUpTo(n - 1)
             \cup {Append(t, c) : t \in {u \in StringsUpTo(n - 1) : Len(u) = n - 1},
                                  c \in {Alphabet[1], Alphabet[2]}}

InvertInit ==
    /\ \E r \in StringsUpTo(MaxRampLen) \cup {SIMPLE_SET, MINIMAL_SET, EXTENDED_SET, BLOCK_SET} :
          given = [heap |-> <<CharacterSet(r)>>, from |-> <<0>>]
    /\ art = <<>>
    /\ ramp = <<>>
    /\ reso = <<>>
    /\ conv = <<>>
    /\ grad = <<>>

\* returned = self.invert(), self being any object that exists
InvertSet ==
    /\ Len(given.heap) < MaxSets
    /\ \E self \in 1..Len(given.heap) :
          /\ given' = [heap |-> Append(given.heap, invert(given.heap[self])),
                       from |-> Append(given.from, self)]
          /\ art' = [self |-> self, returned |-> Len(given.heap) + 1, before |-> given.heap]
    /\ UNCHANGED <<ramp, reso, conv, grad>>

InvertNext == InvertSet

SpecInvert == InvertInit /\ [][InvertNext]_vars

(***************************************************************************)
(* The life of one converter.  given holds the arguments of the            *)
(* construction and, in set, the ramp last handed to set_charset with      *)
(* success; conv is <<>> until the constructor has returned and <<the      *)
(* converter>> after; art is the last call on the converter: its name, its *)
(* argument, what it raised and, for convert, the artifact; ramp is <<>>   *)
(* or what CharacterSet(arg) gave.                                         *)
(***************************************************************************)
MaxLifeLen == 2

LifeStrings == {SubSeq(Alphabet, 1, n) : n \in 0..MaxLifeLen}

LifeCharsets ==
    {<<"str", c>> : c \in LifeStrings} \cup {<<"obj", CharacterSet(MINIMAL_SET)>>}

LifeResolutions ==
    {<<"str", <<"2", "x", "2">>>>, <<"tuple", <<3, 2>>>>, <<"str", <<"b", "a", "d">>>>}

LifeInit ==
    /\ given \in [charset : {<<>>} \cup {<<c>> : c \in LifeStrings}, invert : BOOLEAN,
                  set : {<<>>}]
    /\ conv = <<>>
    /\ art = <<>>
    /\ ramp = <<>>
    /\ reso = <<>>
    /\ grad = <<>>

\* CharacterSet(charset)
ConstructCharacterSet ==
    /\ ramp = <<>>
    /\ \E charset \in LifeStrings :
          ramp' = <<[arg |-> charset, made |-> NewCharacterSet(charset)]>>
    /\ UNCHANGED <<reso, conv, art, grad, given>>

\* AsciiConverter(resolution=(2, 2), charset=..., invert=...)
ConstructConverter ==
    /\ art = <<>>
    /\ \E made \in {AsciiConverter(<<"tuple", <<2, 2>>>>, given.charset, 0, 0, given.invert,
                                   TRUE, <<>>)} :
          /\ conv' = made.self
          /\ art' = [op |-> "init", arg |-> given.charset, raised |-> made.raised,
                     art |-> <<>>]
    /\ UNCHANGED <<ramp, reso, grad, given>>

\* converter.set_charset(charset)
LifeSetCharset ==
    /\ conv # <<>>
    /\ \E charset \in LifeCharsets :
          \E r \in {set_charset(conv[1], charset)} :
              /\ conv' = <<r.self>>
              /\ art' = [op |-> "set_charset", arg |-> charset, raised |-> r.raised,
                         art |-> <<>>]
              /\ given' = [given EXCEPT !.set =
                              IF r.raised # "" THEN @
                              ELSE IF charset[1] = "str" THEN <<charset[2]>>
                              ELSE <<charset[2].charset>>]
    /\ UNCHANGED <<ramp, reso, grad>>

\* converter.set_resolution(resolution)
LifeSetResolution ==
    /\ conv # <<>>
    /\ \E resolution \in LifeResolutions :
          \E r \in {set_resolution(conv[1], resolution)} :
              /\ conv' = <<r.self>>
              /\ art' = [op |-> "set_resolution", arg |-> resolution, raised |-> r.raised,
                         art |-> <<>>]
    /\ UNCHANGED <<ramp, reso, grad, given>>

\* converter.set_brightness(brightness)
LifeSetBrightness ==
    /\ conv # <<>>
    /\ \E brightness \in {0 - 100, 50} :
          /\ conv' = <<[conv[1] EXCEPT !.processor.brightness = Clamp100(brightness)]>>
          /\ art' = [op |-> "set_brightness", arg |-> brightness, raised |-> "",
                     art |-> <<>>]
    /\ UNCHANGED <<ramp, reso, grad, given>>

\* converter.set_contrast(contrast)
LifeSetContrast ==
    /\ conv # <<>>
    /\ \E contrast \in {30} :
          /\ conv' = <<[conv[1] EXCEPT !.processor.contrast = Clamp100(contrast)]>>
          /\ art' = [op |-> "set_contrast", arg |-> contrast, raised |-> "", art |-> <<>>]
    /\ UNCHANGED <<ramp, reso, grad, given>>

\* converter.convert(image)
LifeConvert ==
    /\ conv # <<>>
    /\ \E c \in {convert(conv[1], [kind |-> "image", seed |-> 1])} :
          art' = [op |-> "convert", arg |-> 1, raised |-> c.raised, art |-> c.art]
    /\ UNCHANGED <<ramp, reso, conv, grad, given>>

LifeNext ==
    \/ ConstructCharacterSet
    \/ ConstructConverter
    \/ LifeSetCharset
    \/ LifeSetResolution
    \/ LifeSetBrightness
    \/ LifeSetContrast
    \/ LifeConvert

SpecLife == LifeInit /\ [][LifeNext]_vars

(***************************************************************************)
(* ImageProcessor.process, statement by statement.  conv is the processor; *)
(* given holds the arguments and, in heap, the image objects that exist    *)
(* (an object being its index); reso holds the statement to run next, the  *)
(* object img is bound to and the log of the stages run, each with the     *)
(* object it was handed and the object it returned (0 for none); art holds *)
(* the arrays, what was raised and what was returned.                      *)
(***************************************************************************)
ProcessSizes == {<<2, 2>>, <<1, 4>>, <<2, 0>>, <<0, 1>>}

ProcessInit ==
    /\ \E b \in {0 - 100, 0, 50}, c \in {0 - 100, 0, 50}, a \in BOOLEAN :
          conv = ImageProcessor(b, c, a)
    /\ \E image_path \in ImagePaths \cup {[kind |-> "image", seed |-> 2]},
          target_size \in ProcessSizes :
          given = [image_path |-> image_path, target_size |-> target_size, heap |-> <<>>]
    /\ reso = [pc |-> "load", img |-> 0, log |-> <<>>]
    /\ art = [raised |-> "", grayscale |-> <<>>, rgb |-> <<>>, returned |-> <<>>]
    /\ ramp = <<>>
    /\ grad = <<>>

\* img = self.load_image(image_path)
LoadStage ==
    /\ reso.pc = "load"
    /\ \E r \in {load_image(given.image_path)} :
          IF r.raised # ""
          THEN /\ reso' = [reso EXCEPT !.pc = "raised",
                                       !.log = Append(@, [stage |-> "load", in |-> 0,
                                                          out |-> 0])]
               /\ art' = [art EXCEPT !.raised = r.raised]
               /\ UNCHANGED given
          ELSE /\ reso' = [pc |-> "resize", img |-> Len(given.heap) + 1,
                           log |-> Append(reso.log, [stage |-> "load", in |-> 0,
                                                     out |-> Len(given.heap) + 1])]
               /\ given' = [given EXCEPT !.heap = Append(@, r.image[1])]
               /\ UNCHANGED art
    /\ UNCHANGED <<ramp, conv, grad>>

\* img = self.resize_image(img, target_size[0], target_size[1])
ResizeStage ==
    /\ reso.pc = "resize"
    /\ \E r \in {resize_image(conv, given.heap[reso.img], given.target_size[1],
                              given.target_size[2])} :
          IF r.raised # ""
          THEN /\ reso' = [reso EXCEPT !.pc = "raised",
                                       !.log = Append(@, [stage |-> "resize",
                                                          in |-> reso.img, out |-> 0])]
               /\ art' = [art EXCEPT !.raised = r.raised]
               /\ UNCHANGED given
          ELSE /\ reso' = [pc |-> "brightness", img |-> Len(given.heap) + 1,
                           log |-> Append(reso.log, [stage |-> "resize", in |-> reso.img,
                                                     out |-> Len(given.heap) + 1])]
               /\ given' = [given EXCEPT !.heap = Append(@, r.image[1])]
               /\ UNCHANGED art
    /\ UNCHANGED <<ramp, conv, grad>>

\* img = self.apply_brightness(img)
BrightnessStage ==
    /\ reso.pc = "brightness"
    /\ \E out \in {ReturnedObject(EnhancerCalls("Brightness", conv.brightness, reso.img),
                                  reso.img, given.heap)} :
          /\ reso' = [pc |-> "contrast", img |-> out,
                      log |-> Append(reso.log, [stage |-> "brightness", in |-> reso.img,
                                                out |-> out])]
          /\ given' = [given EXCEPT !.heap =
                          IF out = reso.img THEN @
                          ELSE Append(@, apply_brightness(conv, @[reso.img]))]
    /\ UNCHANGED <<ramp, conv, art, grad>>

\* img = self.apply_contrast(img)
ContrastStage ==
    /\ reso.pc = "contrast"
    /\ \E out \in {ReturnedObject(EnhancerCalls("Contrast", conv.contrast, reso.img),
                                  reso.img, given.heap)} :
          /\ reso' = [pc |-> "grayscale", img |-> out,
                      log |-> Append(reso.log, [stage |-> "contrast", in |-> reso.img,
                                                out |-> out])]
          /\ given' = [given EXCEPT !.heap =
                          IF out = reso.img THEN @
                          ELSE Append(@, apply_contrast(conv, @[reso.img]))]
    /\ UNCHANGED <<ramp, conv, art, grad>>

\* grayscale = self.to_grayscale(img)
GrayscaleStage ==
    /\ reso.pc = "grayscale"
    /\ reso' = [reso EXCEPT !.pc = "rgb",
                            !.log = Append(@, [stage |-> "grayscale", in |-> reso.img,
                                               out |-> 0])]
    /\ art' = [art EXCEPT !.grayscale = <<to_grayscale(given.heap[reso.img])>>]
    /\ UNCHANGED <<ramp, conv, grad, given>>

\* rgb = self.to_rgb_array(img); return grayscale, rgb
RgbStage ==
    /\ reso.pc = "rgb"
    /\ reso' = [reso EXCEPT !.pc = "returned",
                            !.log = Append(@, [stage |-> "rgb", in |-> reso.img,
                                               out |-> 0])]
    /\ \E rgb \in {to_rgb_array(given.heap[reso.img])} :
          art' = [art EXCEPT !.rgb = <<rgb>>,
                             !.returned = <<[grayscale |-> art.grayscale[1],
                                             rgb       |-> rgb]>>]
    /\ UNCHANGED <<ramp, conv, grad, given>>

ProcessNext ==
    \/ LoadStage
    \/ ResizeStage
    \/ BrightnessStage
    \/ ContrastStage
    \/ GrayscaleStage
    \/ RgbStage

SpecProcess == ProcessInit /\ [][ProcessNext]_vars

(***************************************************************************)
(* Conversions in flight on two converters.  conv is the pair of           *)
(* converters and given.conv the pair as constructed; reso[w] is the frame *)
(* of the convert call running on converter w: the statement to run next,  *)
(* the image and the locals; art[w] lists the calls that have ended on     *)
(* converter w, each with its image and what it raised or returned.  Every *)
(* statement gives the converter as it leaves it together with the frame.  *)
(***************************************************************************)
MaxCalls == 2

IdleFrame == [pc |-> "idle", image |-> <<>>, p |-> <<>>, char_grid |-> <<>>,
              color_grid |-> <<>>]

ConvertProcessRecordsSize(self, frame) ==
    LET p == process(self.processor, frame.image[1], self.resolution)
    IN  [self  |-> IF p.raised = ""
                   THEN [self EXCEPT !.resolution = <<Len(p.grayscale[1]), Len(p.grayscale)>>]
                   ELSE self,
         frame |-> [frame EXCEPT !.pc = IF p.raised # "" THEN "raise" ELSE "chars",
                                 !.p = <<p>>]]

\* grayscale, rgb = self.processor.process(image_path, self.resolution)
ConvertProcess(self, frame) ==
    LET p == process(self.processor, frame.image[1], self.resolution)
    IN  [self  |-> self,
         frame |-> [frame EXCEPT !.pc = IF p.raised # "" THEN "raise" ELSE "chars",
                                 !.p = <<p>>]]

\* char_grid = self._grayscale_to_chars(grayscale)
ConvertChars(self, frame) ==
    [self  |-> self,
     frame |-> [frame EXCEPT !.pc = "colors",
                             !.char_grid = <<_grayscale_to_chars(self, frame.p[1].grayscale)>>]]

\* actual_height, actual_width = grayscale.shape;
\* color_grid = self._generate_color_grid(rgb, actual_width, actual_height)
ConvertColors(self, frame) ==
    [self  |-> self,
     frame |-> [frame EXCEPT !.pc = "return",
                             !.color_grid =
                                 <<_generate_color_grid(self, frame.p[1].rgb,
                                                        Len(frame.p[1].grayscale[1]),
                                                        Len(frame.p[1].grayscale))>>]]

\* return AsciiArt(...), or the exception of process leaving convert
ConvertReturn(self, frame) ==
    IF frame.pc = "raise"
    THEN [raised |-> frame.p[1].raised, art |-> <<>>]
    ELSE [raised |-> "",
          art    |-> <<AsciiArt(frame.char_grid[1], frame.color_grid[1], self.resolution[1],
                                Len(frame.p[1].grayscale), self.color_handler)>>]

\* pairs of converters: different configurations, and the same configuration
\* in two objects
WorkerConverters ==
    {<<AsciiConverter(<<"tuple", <<2, 4>>>>, <<SIMPLE_SET>>, 0, 0, FALSE, TRUE, <<>>).self[1],
       AsciiConverter(<<"str", <<"1", "x", "2">>>>, <<MINIMAL_SET>>, 50, 0, TRUE, FALSE,
                      <<ColorHandler(SOLID, <<>>, <<<<0, 255, 0>>>>, <<>>, "horizontal")>>).self[1]>>,
     <<AsciiConverter(<<"tuple", <<2, 4>>>>, <<SIMPLE_SET>>, 0, 0, FALSE, TRUE, <<>>).self[1],
       AsciiConverter(<<"tuple", <<2, 4>>>>, <<SIMPLE_SET>>, 0, 0, FALSE, TRUE, <<>>).self[1]>>}

\* the images converter w is called with
WorkerImages(w) ==
    IF w = 1 THEN {[kind |-> "image", seed |-> 1], [kind |-> "missing", seed |-> 0]}
    ELSE {[kind |-> "image", seed |-> 1]}

WorkerInit ==
    /\ conv \in WorkerConverters
    /\ given = [conv |-> conv]
    /\ reso = <<IdleFrame, IdleFrame>>
    /\ art = <<<<>>, <<>>>>
    /\ ramp = <<>>
    /\ grad = <<>>

\* converter w is called: convert(image_path)
BeginConvert ==
    /\ \E w \in 1..2 :
          /\ reso[w].pc = "idle"
          /\ Len(art[w]) < MaxCalls
          /\ \E image_path \in WorkerImages(w) :
                reso' = [reso EXCEPT ![w] = [IdleFrame EXCEPT !.pc = "process",
                                                              !.image = <<image_path>>]]
    /\ UNCHANGED <<ramp, conv, art, grad, given>>

StepProcess ==
    /\ \E w \in 1..2 :
          /\ reso[w].pc = "process"
          /\ \E r \in {ConvertProcess(conv[w], reso[w])} :
                /\ conv' = [conv EXCEPT ![w] = r.self]
                /\ reso' = [reso EXCEPT ![w] = r.frame]
    /\ UNCHANGED <<ramp, art, grad, given>>

StepChars ==
    /\ \E w \in 1..2 :
          /\ reso[w].pc = "chars"
          /\ \E r \in {ConvertChars(conv[w], reso[w])} :
                /\ conv' = [conv EXCEPT ![w] = r.self]
                /\ reso' = [reso EXCEPT ![w] = r.frame]
    /\ UNCHANGED <<ramp, art, grad, given>>

StepColors ==
    /\ \E w \in 1..2 :
          /\ reso[w].pc = "colors"
          /\ \E r \in {ConvertColors(conv[w], reso[w])} :
                /\ conv' = [conv EXCEPT ![w] = r.self]
                /\ reso' = [reso EXCEPT ![w] = r.frame]
    /\ UNCHANGED <<ramp, art, grad, given>>

StepReturn ==
    /\ \E w \in 1..2 :
          /\ reso[w].pc \in {"return", "raise"}
          /\ \E r \in {ConvertReturn(conv[w], reso[w])} :
                art' = [art EXCEPT ![w] =
                           Append(@, [image |-> reso[w].image[1], raised |-> r.raised,
                                      art |-> r.art])]
          /\ reso' = [reso EXCEPT ![w] = IdleFrame]
    /\ UNCHANGED <<ramp, conv, grad, given>>

WorkerNext ==
    \/ BeginConvert
    \/ StepProcess
    \/ StepChars
    \/ StepColors
    \/ StepReturn

SpecWorkers == WorkerInit /\ [][WorkerNext]_vars

(***************************************************************************)
(* C3: in the artifact convert returns, the glyph grid has exactly the     *)
(* rows and the cells per row of the luminance grid, cell (y, x) is        *)
(* charset.get_char(luminance[y][x]) for the converter's ramp, so every    *)
(* glyph is a character of that ramp; the artifact's width is the target   *)
(* width and its height at most the target height (10 and <= 10 for a      *)
(* 10 x 10 target).                                                        *)
(***************************************************************************)
C3_GlyphGridFollowsLuminance ==
    (art # <<>> /\ art.art # <<>> /\ ~art.passed) =>
        LET a  == art.art[1]
            cs == conv.charset
        IN  /\ Len(a.char_grid) = Len(art.grayscale)
            /\ \A y \in 1..Len(art.grayscale) :
                  /\ Len(a.char_grid[y]) = Len(art.grayscale[y])
                  /\ \A x \in 1..Len(art.grayscale[y]) :
                        /\ a.char_grid[y][x] = get_char(cs, art.grayscale[y][x])
                        /\ \E i \in 1..cs.length : cs.charset[i] = a.char_grid[y][x]
            /\ a.width = conv.resolution[1]
            /\ a.height <= conv.resolution[2]
            /\ conv.resolution = <<10, 10>> => (a.width = 10 /\ a.height <= 10)

\* the 10 x 10 target was converted with the simple ramp, to 10 columns and
\* 5 rows of glyphs
C3_Witness ==
    /\ art # <<>>
    /\ art.art # <<>>
    /\ ~art.passed
    /\ conv.resolution = <<10, 10>>
    /\ conv.charset.charset = SIMPLE_SET
    /\ Len(art.art[1].char_grid) = 5
    /\ Len(art.art[1].char_grid[1]) = 10

(***************************************************************************)
(* C4: in every artifact convert returns, whatever the colour mode, and    *)
(* again after the border and padding pass, art.height is the number of    *)
(* rows of char_grid and of color_grid and art.width is the length of      *)
(* every row of char_grid and of color_grid; before the pass the height is *)
(* the resized height, the one handed to the resampling.                   *)
(***************************************************************************)
C4_ArtifactDimensionsAgree ==
    (art # <<>> /\ art.art # <<>>) =>
        LET a == art.art[1]
        IN  /\ a.height = Len(a.char_grid)
            /\ a.height = Len(a.color_grid)
            /\ \A y \in 1..a.height :
                  /\ Len(a.char_grid[y]) = a.width
                  /\ Len(a.color_grid[y]) = a.width
            /\ ~art.passed => a.height = art.size[1][2]

\* a rainbow artifact of 3 columns went through the pass with padding 10
C4_Witness ==
    /\ art # <<>>
    /\ art.art # <<>>
    /\ art.passed
    /\ art.art[1].color_handler # <<>>
    /\ art.art[1].color_handler[1].mode = RAINBOW
    /\ art.size = <<<<3, 2>>>>
    /\ art.art[1].width = 3 + 2 * 11
    /\ art.art[1].height = 2 + 2 * 11

(***************************************************************************)
(* C5: resize_image(image, w, h) resamples to exactly (w, floor(h * 0.5))  *)
(* with aspect correction and to exactly (w, h) without: that is the size  *)
(* handed to the resampling for every h >= 0, and the size of the image    *)
(* whenever the resampling returns one.  The width is never altered.       *)
(***************************************************************************)
C5_ResizeDimensions ==
    (art # <<>> /\ art.size # <<>>) =>
        LET w        == conv.resolution[1]
            h        == conv.resolution[2]
            expected == IF conv.processor.aspect_correct THEN <<w, h \div 2>>
                        ELSE <<w, h>>
        IN  /\ art.size[1][1] = w
            /\ h >= 0 => art.size[1] = expected
            /\ art.raised = "" =>
                  /\ Len(art.grayscale) = expected[2]
                  /\ \A y \in 1..Len(art.grayscale) : Len(art.grayscale[y]) = expected[1]

\* with aspect correction a (3, 3) target was resampled to 3 columns and 1 row
C5_Witness ==
    /\ art # <<>>
    /\ art.raised = ""
    /\ conv.processor.aspect_correct
    /\ conv.resolution = <<3, 3>>
    /\ art.size = <<<<3, 1>>>>
    /\ Len(art.grayscale) = 1

(***************************************************************************)
(* C8, as stated: whenever a conversion reaches the resample step, the     *)
(* width and the height handed to the resampling are both > 0.             *)
(***************************************************************************)
C8_ResampleDimensionsPositive ==
    (art # <<>> /\ art.size # <<>>) => (art.size[1][1] > 0 /\ art.size[1][2] > 0)

(***************************************************************************)
(* C9: after construction with any integer brightness and contrast and     *)
(* after any sequence of set_brightness and set_contrast calls,            *)
(* processor.brightness and processor.contrast lie in [-100, 100] and each *)
(* is max(-100, min(100, v)) for the v most recently given for it; no call *)
(* raises; and setting one of the two never changes the other.             *)
(***************************************************************************)
C9_AdjustmentsClamped ==
    /\ [](/\ given.raised = ""
          /\ conv.processor.brightness \in (0 - 100)..100
          /\ conv.processor.contrast \in (0 - 100)..100
          /\ conv.processor.brightness =
                 (IF given.brightness < 0 - 100 THEN 0 - 100
                  ELSE IF given.brightness > 100 THEN 100 ELSE given.brightness)
          /\ conv.processor.contrast =
                 (IF given.contrast < 0 - 100 THEN 0 - 100
                  ELSE IF given.contrast > 100 THEN 100 ELSE given.contrast))
    /\ [][SetBrightness => conv'.processor.contrast = conv.processor.contrast]_vars
    /\ [][SetContrast => conv'.processor.brightness = conv.processor.brightness]_vars

\* brightness was given as 102 and is 100, contrast as -101 and is -100
C9_Witness ==
    /\ given.brightness = 102
    /\ conv.processor.brightness = 100
    /\ given.contrast = 0 - 101
    /\ conv.processor.contrast = 0 - 100

\* the grid is height rows of width cells of three bytes
IsByteGrid(grid, width, height) ==
    /\ Len(grid) = height
    /\ \A y \in 1..height :
          /\ Len(grid[y]) = width
          /\ \A x \in 1..width : \A c \in 1..3 : grid[y][x][c] \in 0..255

\* the colours a handler of a generating mode gives a grid of width by height
GeneratedColors(handler, width, height) ==
    CASE handler.mode = RAINBOW  -> generate_rainbow_gradient(handler, width, height)
      [] handler.mode = GRADIENT -> generate_custom_gradient(handler, width, height)
      [] handler.mode = SOLID    -> [y \in 1..height |-> [x \in 1..width |->
                                        handler.text_color]]

(***************************************************************************)
(* C14: the colour grid of the artifact convert returns is chosen by the   *)
(* mode alone.  With no colour handler, black-white or source it is the    *)
(* RGB grid process returned; with rainbow, gradient or solid it is a grid *)
(* of bytes of exactly the luminance grid's height and width that the      *)
(* handler gives for that height and width, whatever the pixels; in solid  *)
(* mode every cell is the text colour, white when none was given.          *)
(***************************************************************************)
C14_ColorGridByMode ==
    (art # <<>> /\ art.art # <<>> /\ ~art.passed) =>
        /\ conv.color_handler = <<>> => art.art[1].color_grid = art.rgb
        /\ conv.color_handler # <<>> =>
              /\ conv.color_handler[1].mode \in {BLACK_WHITE, SOURCE} =>
                    art.art[1].color_grid = art.rgb
              /\ conv.color_handler[1].mode \in {RAINBOW, GRADIENT, SOLID} =>
                    /\ IsByteGrid(art.art[1].color_grid, Len(art.grayscale[1]),
                                  Len(art.grayscale))
                    /\ art.art[1].color_grid =
                          GeneratedColors(conv.color_handler[1], Len(art.grayscale[1]),
                                          Len(art.grayscale))
              /\ conv.color_handler[1] = ColorHandler(SOLID, <<>>, <<>>, <<>>, "horizontal") =>
                    \A y \in 1..Len(art.grayscale) : \A x \in 1..Len(art.grayscale[1]) :
                        art.art[1].color_grid[y][x] = <<255, 255, 255>>

\* a conversion in solid mode with no text colour given returned a grid of
\* 3 by 4 white cells, the pixels being of other colours
C14_Witness ==
    /\ art # <<>>
    /\ art.art # <<>>
    /\ ~art.passed
    /\ conv.color_handler = <<ColorHandler(SOLID, <<>>, <<>>, <<>>, "horizontal")>>
    /\ Len(art.art[1].color_grid) = 4
    /\ Len(art.art[1].color_grid[1]) = 3
    /\ art.art[1].color_grid[4][3] = <<255, 255, 255>>
    /\ art.rgb[4][3] # <<255, 255, 255>>

(***************************************************************************)
(* The stated texts, built cell by cell rather than by join.               *)
(***************************************************************************)
RECURSIVE Concat(_)
Concat(parts) == IF Len(parts) = 0 THEN <<>> ELSE Concat(SubSeq(parts, 1, Len(parts) - 1)) \o parts[Len(parts)]

LinesWithBreaks(lines) ==
    Concat([y \in 1..Len(lines) |-> IF y = 1 THEN lines[y] ELSE <<"\n">> \o lines[y]])

StatedPlainText(char_grid) ==
    LinesWithBreaks([y \in 1..Len(char_grid) |-> char_grid[y]])

StatedCode(color) ==
    <<ESC, "[", "3", "8", ";", "2", ";">> \o Str(color[1]) \o <<";">> \o Str(color[2])
        \o <<";">> \o Str(color[3]) \o <<"m">>

InsideColorGrid(color_grid, y, x) ==
    /\ y <= Len(color_grid)
    /\ x <= Len(color_grid[y])

StatedColoredText(char_grid, color_grid) ==
    LinesWithBreaks(
        [y \in 1..Len(char_grid) |->
            Concat([x \in 1..Len(char_grid[y]) |->
                       IF InsideColorGrid(color_grid, y, x)
                       THEN StatedCode(color_grid[y][x]) \o <<char_grid[y][x]>>
                                \o <<ESC, "[", "0", "m">>
                       ELSE <<char_grid[y][x]>>])])

HasColorCode(text) == \E k \in 1..Len(text) : text[k] = ESC

\* C15: to_colored_text of an artifact without a colour handler is its plain
\* text; with a handler in black-and-white mode it is the rows joined by
\* newlines, without colour codes; in every other mode each glyph whose
\* position lies inside the colour grid is written as the 24-bit foreground
\* code of that cell, the glyph and the reset code, each glyph outside the
\* colour grid is written bare, and the rows are joined by newlines.
C15_ColoredText ==
    art.colored # <<>> =>
        IF art.art.color_handler = <<>>
        THEN art.colored[1] = to_plain_text(art.art)
        ELSE IF art.art.color_handler[1].mode = BLACK_WHITE
        THEN /\ art.colored[1] = StatedPlainText(art.art.char_grid)
             /\ ~HasColorCode(art.colored[1])
        ELSE art.colored[1] = StatedColoredText(art.art.char_grid, art.art.color_grid)

C15_Witness ==
    /\ art.colored # <<>>
    /\ art.art.color_handler # <<>>
    /\ art.art.color_handler[1].mode = SOURCE
    /\ art.art.char_grid = <<<<"a", "b", "c">>, <<"d", "e", "f">>>>
    /\ Len(art.art.color_grid) = 1
    /\ Len(art.art.color_grid[1]) = 2
    /\ HasColorCode(art.colored[1])
    /\ SubSeq(art.colored[1], 1, 17)
           = <<ESC, "[", "3", "8", ";", "2", ";", "0", ";", "9", ";", "2", "5", "5", "m",
               "a", ESC>>

\* C16: to_plain_text returns the rows of the glyph grid joined by newlines,
\* each row being its glyphs concatenated, with no trailing newline and no
\* colour codes; str(art) returns the same text; neither changes the
\* artifact; the grid [[a,b,c],[d,e,f]] gives "abc\ndef".
C16_PlainText ==
    /\ [](art.plain # <<>> =>
            /\ art.plain[1] = StatedPlainText(art.art.char_grid)
            /\ ~HasColorCode(art.plain[1])
            /\ (art.art.char_grid = <<<<"a", "b", "c">>, <<"d", "e", "f">>>>
                    => art.plain[1] = <<"a", "b", "c", "\n", "d", "e", "f">>))
    /\ [](art.str # <<>> => art.str[1] = StatedPlainText(art.art.char_grid))
    /\ [][art'.art = art.art]_vars

C16_Witness ==
    /\ art.art.char_grid = <<<<"a", "b", "c">>, <<"d", "e", "f">>>>
    /\ art.plain = <<<<"a", "b", "c", "\n", "d", "e", "f">>>>
    /\ art.str = art.plain

(***************************************************************************)
(* The border claims.                                                      *)
(***************************************************************************)
IsRectangular(grid) ==
    /\ Len(grid) > 0
    /\ Len(grid[1]) > 0
    /\ \A y \in 1..Len(grid) : Len(grid[y]) = Len(grid[1])

\* the frame of fill around content: ring cells are edge, the cells of the
\* content sit at offset p + 1, and every other cell is fill
IsFramed(out, content, height, width, p, edge, fill) ==
    /\ Len(out) = height + 2 * (p + 1)
    /\ \A y \in 1..Len(out) :
          /\ Len(out[y]) = width + 2 * (p + 1)
          /\ \A x \in 1..Len(out[y]) :
                IF y = 1 \/ y = Len(out) \/ x = 1 \/ x = Len(out[y])
                THEN out[y][x] = edge
                ELSE IF /\ y - (p + 1) \in 1..height
                        /\ x - (p + 1) \in 1..width
                THEN out[y][x] = content[y - (p + 1)][x - (p + 1)]
                ELSE out[y][x] = fill

\* C17: for a non-empty rectangular glyph grid of width x height and a
\* padding p >= 0, add_border returns a grid of height + 2(p+1) rows of
\* width + 2(p+1) cells whose outer ring is border_char, whose content is
\* the input at offset p + 1 and whose other cells are spaces; the input
\* grid stays as it was; a 2 x 2 grid with p = 0 gives a 4 x 4 grid.
C17_AddBorderFrames ==
    /\ [](\A k \in 1..Len(art.chars) :
            (IsRectangular(art.char_grid) /\ art.chars[k].padding >= 0) =>
                /\ art.chars[k].raised = ""
                /\ IsFramed(art.chars[k].grid, art.char_grid, Len(art.char_grid),
                            Len(art.char_grid[1]), art.chars[k].padding,
                            art.chars[k].border_char, " ")
                /\ (/\ Len(art.char_grid) = 2
                    /\ Len(art.char_grid[1]) = 2
                    /\ art.chars[k].padding = 0)
                       => (/\ Len(art.chars[k].grid) = 4
                           /\ \A y \in 1..4 : Len(art.chars[k].grid[y]) = 4))
    /\ [][art'.char_grid = art.char_grid]_vars

C17_Witness ==
    /\ art.char_grid = <<<<"a", "b">>, <<"c", "d">>>>
    /\ art.chars # <<>>
    /\ art.chars[1].padding = 1
    /\ art.chars[1].grid = <<<<"#", "#", "#", "#", "#", "#">>,
                             <<"#", " ", " ", " ", " ", "#">>,
                             <<"#", " ", "a", "b", " ", "#">>,
                             <<"#", " ", "c", "d", " ", "#">>,
                             <<"#", " ", " ", " ", " ", "#">>,
                             <<"#", "#", "#", "#", "#", "#">>>>

\* C18: add_border and add_border_to_colors both raise ValueError, and
\* return no grid, when the padding is negative and when the input grid has
\* no rows or no columns.
C18_BothRaiseOnBadInput ==
    /\ \A k \in 1..Len(art.chars) :
          (art.chars[k].padding < 0 \/ ~(Len(art.char_grid) > 0 /\ Len(art.char_grid[1]) > 0))
              => (art.chars[k].raised = "ValueError" /\ art.chars[k].grid = <<>>)
    /\ \A k \in 1..Len(art.colors) :
          (\/ art.colors[k].padding < 0
           \/ art.color_grid.shape[1] = 0
           \/ art.color_grid.shape[2] = 0)
              => (art.colors[k].raised = "ValueError" /\ art.colors[k].grid = <<>>)

\* C19: for a colour grid of shape (height, width, 3) and a padding p >= 0,
\* add_border_to_colors returns a grid of shape (height + 2(p+1),
\* width + 2(p+1), 3) whose outer ring is border_color, whose content is the
\* input at offset p + 1, and whose padding cells between the ring and the
\* content are border_color as well.
C19_ColorBorderFrames ==
    \A k \in 1..Len(art.colors) :
        art.colors[k].padding >= 0 =>
            /\ art.colors[k].raised = ""
            /\ IsFramed(art.colors[k].grid, art.color_grid.cells, art.color_grid.shape[1],
                        art.color_grid.shape[2], art.colors[k].padding,
                        art.colors[k].border_color, art.colors[k].border_color)

(***************************************************************************)
(* The colour string claim.                                                *)
(***************************************************************************)
IsHexColor(color_str) ==
    /\ Len(color_str) = 7
    /\ color_str[1] = "#"
    /\ \A i \in 2..7 :
          color_str[i] \in {"0", "1", "2", "3", "4", "5", "6", "7", "8", "9", "a", "b", "c",
                            "d", "e", "f", "A", "B", "C", "D", "E", "F"}

StatedHexValue(c) ==
    CASE c \in {"a", "A"} -> 10 [] c \in {"b", "B"} -> 11 [] c \in {"c", "C"} -> 12
      [] c \in {"d", "D"} -> 13 [] c \in {"e", "E"} -> 14 [] c \in {"f", "F"} -> 15
      [] OTHER -> DigitVal(c)

StatedChannel(color_str, k) ==
    16 * StatedHexValue(color_str[2 * k]) + StatedHexValue(color_str[2 * k + 1])

IsNamedColor(color_str) ==
    \E name \in DOMAIN named_colors :
        /\ Len(name) = Len(color_str)
        /\ \A i \in 1..Len(name) :
              \/ color_str[i] = name[i]
              \/ \E k \in 1..Len(LowerLetters) :
                    LowerLetters[k] = name[i] /\ UpperLetters[k] = color_str[i]

\* C20: parse_color returns (R, G, B) for a # followed by exactly six
\* hexadecimal digits, each pair read as one channel, and the listed colour
\* for one of the ten colour names in any case; it raises ValueError for
\* every other string; every channel it returns is an integer in 0..255.
C20_ParseColor ==
    grad.parsed # <<>> =>
        IF IsHexColor(grad.color_str)
        THEN /\ grad.parsed[1].raised = ""
             /\ grad.parsed[1].rgb = <<[k \in 1..3 |-> StatedChannel(grad.color_str, k)]>>
             /\ \A k \in 1..3 : grad.parsed[1].rgb[1][k] \in 0..255
        ELSE IF IsNamedColor(grad.color_str)
        THEN /\ grad.parsed[1].raised = ""
             /\ grad.parsed[1].rgb = <<named_colors[Lower(grad.color_str)]>>
             /\ \A k \in 1..3 : grad.parsed[1].rgb[1][k] \in 0..255
        ELSE /\ grad.parsed[1].raised = "ValueError"
             /\ grad.parsed[1].rgb = <<>>

(***************************************************************************)
(* The command claims.                                                     *)
(***************************************************************************)
StatedSuffixKind(output) ==
    LET s == Lower(PathSuffix(output))
    IN  IF s \in {<<".", "p", "n", "g">>, <<".", "j", "p", "g">>,
                  <<".", "j", "p", "e", "g">>} THEN "image"
        ELSE IF s = <<".", "j", "s", "o", "n">> THEN "json"
        ELSE "text"

\* C21: when the conversion has succeeded and an output path is given, the
\* run that has ended has carried out the export its extension selects (the
\* image export for .png, .jpg and .jpeg, the JSON export for .json, and
\* otherwise the text rendering, coloured unless the mode is black-white)
\* and has exit code 0.
C21_ExportByExtension ==
    (reso.pc = "exited" /\ art.returned # <<>> /\ given.output # <<>>) =>
        /\ grad.exit = <<0>>
        /\ grad.file # <<>>
        /\ grad.file[1].format = StatedSuffixKind(given.output[1])
        /\ StatedSuffixKind(given.output[1]) = "text" =>
              /\ grad.file[1].content.colored = (given.color_mode # BLACK_WHITE)
              /\ grad.file[1].content.text =
                     IF given.color_mode # BLACK_WHITE THEN to_colored_text(art.art[1])
                     ELSE to_plain_text(art.art[1])

WellFormedResolution(r) ==
    \/ Lower(r) \in {p[1] : p \in StatedPresets}
    \/ ExactWxH(r)

WellFormedColor(c) == IsHexColor(c) \/ IsNamedColor(c)

\* the stops of a gradient string: its parts between commas, blanks stripped
WellFormedStops(g) ==
    \A k \in 1..Len(SplitAll(g, ",")) :
        WellFormedColor(RStrip(LStrip(SplitAll(g, ",")[k])))

\* some value among the options is invalid
InvalidConfiguration(o) ==
    \/ o.resolution # <<>> /\ ~WellFormedResolution(o.resolution[1])
    \/ o.output_resolution # <<>> /\ ~WellFormedResolution(o.output_resolution[1])
    \/ o.custom_chars # <<>> /\ Len(o.custom_chars[1]) < 2
    \/ o.gradient_colors # <<>> /\ ~WellFormedStops(o.gradient_colors[1])
    \/ o.text_color # <<>> /\ ~WellFormedColor(o.text_color[1])
    \/ o.bg_color # <<>> /\ ~WellFormedColor(o.bg_color[1])

\* C22: when a configuration value given to the command is invalid (a
\* malformed resolution or output resolution, a custom ramp of fewer than 2
\* characters, a malformed gradient, text or background colour), then in
\* every colour mode and for every output extension nothing is ever written
\* to standard output or to the output file, and the run ends with a
\* non-zero exit code and a message on the error stream.
C22_InvalidConfigurationAborts ==
    InvalidConfiguration(given) =>
        /\ grad.out = <<>>
        /\ grad.file = <<>>
        /\ reso.pc = "exited" =>
              /\ grad.exit # <<0>>
              /\ \E k \in 1..Len(grad.err) :
                    grad.err[k] \in {"Error: not found", "Error: invalid value",
                                     "Unexpected error", "Error parsing gradient colors",
                                     "Error parsing text color",
                                     "Error parsing background color",
                                     "Error: Custom character set must have at least 2 characters"}

\* floor(pixels / (num / den * font_size)) for positive integers
StatedCells(pixels, font_size, num, den) == (den * pixels) \div (num * font_size)

StatedGrid(o) ==
    LET px == IF Lower(o.output_resolution[1]) \in {p[1] : p \in StatedPresets}
              THEN (CHOOSE p \in StatedPresets : p[1] = Lower(o.output_resolution[1]))[2]
              ELSE <<DigitsValue(SplitFirst(o.output_resolution[1], "x"), 0),
                     DigitsValue(AfterFirst(o.output_resolution[1], "x"), 0)>>
    IN  <<StatedCells(px[1], o.font_size, 6, 10),
          IF o.no_aspect_correct THEN StatedCells(px[2], o.font_size, 7, 10)
          ELSE StatedCells(px[2], o.font_size, 35, 100)>>

\* C23: with --output-resolution resolving to (W_px, H_px) and a font size
\* f in 4..72, the grid handed to the converter is floor(W_px / (0.6 f)) wide
\* and floor(H_px / (0.35 f)) high with aspect correction, floor(H_px /
\* (0.7 f)) high without; --resolution and --scale have no effect on it.
C23_GridFromOutputResolution ==
    /\ reso.resolution # <<>> =>
          reso.resolution[1] = Str(StatedGrid(given)[1]) \o <<"x">> \o Str(StatedGrid(given)[2])
    /\ conv # <<>> => conv.resolution = StatedGrid(given)

C23_Witness ==
    /\ conv # <<>>
    /\ given.output_resolution = <<<<"4", "k">>>>
    /\ given.font_size = 10
    /\ ~given.no_aspect_correct
    /\ given.resolution # <<>>
    /\ given.scale # <<>>
    /\ conv.resolution = <<640, 617>>

\* |factor - (1 + v / 100)| <= 2^-52, in integers: factor is man * 2^exp
NearStatedFactor(factor, v) ==
    IF FIsZero(factor) THEN v = 0 - 100
    ELSE /\ factor.sign = 0
         /\ factor.exp < 0
         /\ LET have == BMulSmall(factor.man, 100)
                want == BShl(BFromInt(100 + v), 0 - factor.exp)
                off  == IF BCmp(have, want) >= 0 THEN BSub(have, want)
                        ELSE BSub(want, have)
            IN  BCmp(off, BShl(BFromInt(100), (0 - factor.exp) - 52)) <= 0

\* C24: apply_brightness and apply_contrast return the very object handed in,
\* invoking no enhancer, when the configured value is 0; for every other value
\* v they invoke their enhancer exactly once, with factor 1 + v / 100: 0 for
\* -100, 2 for +100, and always within [0, 2].
C24_EnhanceFactor ==
    art # <<>> =>
        LET v == IF art.op = "brightness" THEN conv.brightness ELSE conv.contrast
        IN  /\ v = 0 => art.returned = art.image /\ art.enhancer = <<>>
            /\ v # 0 =>
                  /\ Len(art.enhancer) = 1
                  /\ art.enhancer[1].enhancer =
                        (IF art.op = "brightness" THEN "Brightness" ELSE "Contrast")
                  /\ art.enhancer[1].image = art.image
                  /\ NearStatedFactor(art.enhancer[1].factor, v)
                  /\ FLe(F0, art.enhancer[1].factor)
                  /\ FLe(art.enhancer[1].factor, FFromInt(2))
                  /\ v = 0 - 100 => art.enhancer[1].factor = F0
                  /\ v = 100 => art.enhancer[1].factor = FFromInt(2)

C24_Witness ==
    /\ art # <<>>
    /\ art.op = "contrast"
    /\ conv.contrast = 0 - 100
    /\ conv.brightness = 100
    /\ art.image = 1
    /\ art.returned = 2
    /\ Len(art.enhancer) = 1
    /\ art.enhancer[1].factor = F0

\* C25: invert() returns a new CharacterSet whose sequence is the exact
\* reverse of the original's and of the same length; the original is left
\* unchanged; inverting twice gives the original sequence.
C25_InvertReverses ==
    art # <<>> =>
        LET s == given.heap[art.self]
            t == given.heap[art.returned]
        IN  /\ art.returned \notin 1..Len(art.before)
            /\ t.length = s.length
            /\ Len(t.charset) = Len(s.charset)
            /\ \A k \in 1..Len(s.charset) : t.charset[k] = s.charset[Len(s.charset) + 1 - k]
            /\ \A i \in 1..Len(art.before) : given.heap[i] = art.before[i]
            /\ given.from[art.self] # 0 =>
                  t.charset = given.heap[given.from[art.self]].charset

C25_Witness ==
    /\ art # <<>>
    /\ given.heap[1].charset = <<"a", "b", "b">>
    /\ given.from = <<0, 1, 2>>
    /\ given.heap[2].charset = <<"b", "b", "a">>
    /\ given.heap[3].charset = <<"a", "b", "b">>

\* C26: constructing a CharacterSet fails with ValueError 'cannot be empty'
\* exactly when the given sequence has no characters; every non-empty
\* sequence, one of length 1 included, constructs a ramp holding exactly the
\* given characters in the given order, its length their count; the same
\* rule applies when AsciiConverter or set_charset is given a string.
C26_EmptyRampRejected ==
    /\ ramp # <<>> =>
          /\ ramp[1].made.raised = "ValueError: Character set cannot be empty"
                <=> Len(ramp[1].arg) = 0
          /\ Len(ramp[1].arg) > 0 =>
                /\ ramp[1].made.raised = ""
                /\ ramp[1].made.self[1].charset = ramp[1].arg
                /\ ramp[1].made.self[1].length = Len(ramp[1].arg)
    /\ (art # <<>> /\ art.op = "init" /\ art.arg # <<>>) =>
          /\ art.raised = "ValueError: Character set cannot be empty"
                <=> Len(art.arg[1]) = 0
          /\ Len(art.arg[1]) = 0 => conv = <<>>
          /\ Len(art.arg[1]) > 0 =>
                /\ art.raised = ""
                /\ conv # <<>>
                /\ conv[1].charset.length = Len(art.arg[1])
                /\ ~given.invert => conv[1].charset.charset = art.arg[1]
    /\ (art # <<>> /\ art.op = "set_charset" /\ art.arg[1] = "str") =>
          /\ art.raised = "ValueError: Character set cannot be empty"
                <=> Len(art.arg[2]) = 0
          /\ Len(art.arg[2]) > 0 =>
                /\ art.raised = ""
                /\ conv[1].charset.charset = art.arg[2]
                /\ conv[1].charset.length = Len(art.arg[2])

C26_Witness ==
    /\ ramp # <<>>
    /\ ramp[1].arg = <<>>
    /\ ramp[1].made.raised # ""
    /\ art # <<>>
    /\ art.op = "set_charset"
    /\ art.arg = <<"str", <<"a">>>>
    /\ conv[1].charset.charset = <<"a">>
    /\ conv[1].charset.length = 1

\* the ramp the constructor's arguments ask for
StatedInitialRamp ==
    LET supplied == IF given.charset = <<>> THEN EXTENDED_SET ELSE given.charset[1]
    IN  IF given.invert
        THEN [k \in 1..Len(supplied) |-> supplied[Len(supplied) + 1 - k]]
        ELSE supplied

\* C29: inversion is applied exactly once, at construction: with invert=True
\* the converter's ramp is the reverse of the supplied (or default) ramp, with
\* invert=False the supplied ramp; a later set_charset(c) makes the ramp
\* exactly c, not reversed, whatever invert was; convert, set_resolution,
\* set_brightness and set_contrast never change the ramp.
C29_InversionOnlyAtConstruction ==
    conv # <<>> =>
        /\ conv[1].charset.charset =
              (IF given.set # <<>> THEN given.set[1] ELSE StatedInitialRamp)
        /\ conv[1].charset.length = Len(conv[1].charset.charset)

C29_Witness ==
    /\ conv # <<>>
    /\ given.invert
    /\ given.charset = <<<<"a", "b">>>>
    /\ given.set = <<<<"a", "b">>>>
    /\ art.op = "convert"
    /\ art.art # <<>>
    /\ conv[1].processor.brightness = 50
    /\ conv[1].resolution = <<3, 2>>
    /\ conv[1].charset.charset = <<"a", "b">>

StatedStages == <<"load", "resize", "brightness", "contrast", "grayscale", "rgb">>

\* C27: process runs its stages in the order load, resize, brightness,
\* contrast, derive luminance, derive RGB, each at most once per call; the
\* luminance grid and the RGB grid are both derived from the image the
\* contrast stage produced, so the adjustments show in both; when load fails
\* no later stage runs and no grids are returned.
C27_StagesInOrder ==
    /\ Len(reso.log) <= Len(StatedStages)
    /\ \A k \in 1..Len(reso.log) : reso.log[k].stage = StatedStages[k]
    /\ \A k \in 2..Len(reso.log) :
          k <= 4 => reso.log[k].in = reso.log[k - 1].out /\ reso.log[k].in # 0
    /\ Len(reso.log) >= 5 => reso.log[5].in = reso.log[4].out
    /\ Len(reso.log) >= 6 =>
          /\ reso.log[6].in = reso.log[4].out
          /\ art.returned # <<>>
          /\ art.returned[1].rgb = given.heap[reso.log[4].out].px
          /\ Len(art.returned[1].grayscale) = Len(art.returned[1].rgb)
          /\ \A y \in 1..Len(art.returned[1].rgb) :
                /\ Len(art.returned[1].grayscale[y]) = Len(art.returned[1].rgb[y])
                /\ \A x \in 1..Len(art.returned[1].rgb[y]) :
                      art.returned[1].grayscale[y][x] =
                          LuminanceOf[Luma(art.returned[1].rgb[y][x])]
          /\ art.returned[1].rgb =
                apply_contrast(conv, apply_brightness(conv, given.heap[reso.log[2].out])).px
    /\ Len(reso.log) < 6 => art.returned = <<>>
    /\ (given.image_path.kind # "image" /\ reso.log # <<>>) =>
          /\ Len(reso.log) = 1
          /\ reso.log[1].out = 0
          /\ art.raised # ""
          /\ art.returned = <<>>
          /\ art.grayscale = <<>>
          /\ art.rgb = <<>>

C27_Witness ==
    /\ Len(reso.log) = 6
    /\ conv.brightness = 50
    /\ conv.contrast = 0 - 100
    /\ reso.log[3].out # reso.log[3].in
    /\ reso.log[4].out # reso.log[4].in
    /\ art.returned # <<>>
    /\ art.returned[1].rgb # given.heap[reso.log[2].out].px
    /\ Len(art.returned[1].rgb) = 2

\* whether the grid framed is the grid inner inside a ring of edge, p cells
\* away from it on every side
FramedBy(framed, inner, edge, p) ==
    /\ Len(framed) = Len(inner) + 2 * (p + 1)
    /\ \A y \in 1..Len(framed) :
          /\ Len(framed[y]) = Len(inner[1]) + 2 * (p + 1)
          /\ \A x \in 1..Len(framed[y]) :
                /\ (y \in {1, Len(framed)} \/ x \in {1, Len(framed[y])}) =>
                      framed[y][x] = edge
                /\ (y - (p + 1) \in 1..Len(inner) /\ x - (p + 1) \in 1..Len(inner[1])) =>
                      framed[y][x] = inner[y - (p + 1)][x - (p + 1)]

\* C30: in the command the border and padding pass runs exactly when the
\* border style is not 'none' or the padding is positive, after the
\* conversion and before any terminal or file output; when it does not run
\* the artifact is exactly what convert returned; when it runs both grids are
\* replaced using the same padding, the border colour being (255, 255, 255)
\* in every mode but black-white and (128, 128, 128) in black-white, and the
\* border character is drawn even for the style 'none' with a padding > 0.
C30_BorderPassInCommand ==
    /\ reso.pc \in {"resolve", "charset", "colors", "converter", "convert"} =>
          art.art = <<>> /\ grad.out = <<>> /\ grad.file = <<>>
    /\ reso.pc = "border" =>
          art.art = art.returned /\ art.art # <<>> /\ grad.out = <<>> /\ grad.file = <<>>
    /\ (grad.out # <<>> \/ grad.file # <<>>) => art.art # <<>> /\ reso.pc # "border"
    /\ (art.art # <<>> /\ reso.pc # "border") =>
          IF given.border # "none" \/ given.padding > 0
          THEN /\ FramedBy(art.art[1].char_grid, art.returned[1].char_grid,
                           given.border_char, given.padding)
               /\ FramedBy(art.art[1].color_grid, art.returned[1].color_grid,
                           IF given.color_mode = "black-white"
                           THEN <<128, 128, 128>> ELSE <<255, 255, 255>>,
                           given.padding)
               /\ art.art[1].height = Len(art.art[1].char_grid)
               /\ art.art[1].width = Len(art.art[1].char_grid[1])
          ELSE art.art = art.returned

C30_Witness ==
    /\ reso.pc = "exited"
    /\ given.border = "none"
    /\ given.padding = 1
    /\ grad.out # <<>>
    /\ grad.exit = <<0>>
    /\ art.art # <<>>
    /\ art.art # art.returned
    /\ art.art[1].char_grid[1][1] = "#"
    /\ art.art[1].color_grid[1][1] = <<255, 255, 255>>

\* C28: convert reads but never writes the converter's configuration and
\* keeps no state between calls: under any interleaving of conversions on
\* distinct converters, and any repetition on one converter, every call
\* gives the artifact the same call gives when run alone, and calls on one
\* converter with the same image give the same artifact.
C28_ConvertIsReentrant ==
    /\ conv = given.conv
    /\ \A w \in 1..2 :
          Len(art[w]) > 0 =>
              LET last  == art[w][Len(art[w])]
                  alone == convert(given.conv[w], last.image)
              IN  /\ last.raised = alone.raised
                  /\ last.art = alone.art
                  /\ \A j \in 1..Len(art[w]) :
                        art[w][j].image = last.image =>
                            art[w][j].art = last.art /\ art[w][j].raised = last.raised

C28_Witness ==
    /\ Len(art[1]) = 1
    /\ Len(art[2]) = 1
    /\ reso[1].pc = "chars"
    /\ reso[2].pc = "return"
    /\ reso[1].image = <<art[1][1].image>>
    /\ art[1][1].art # <<>>
    /\ art[2][1].art # <<>>
    /\ art[2][1].art # art[1][1].art

=============================================================================
